---- MODULE Spec2Model ----
(***************************************************************************)
(* A model of hecto's text buffer: Row (src/src/row.rs) and Document       *)
(* (src/src/document.rs).  A string is a sequence of scalars (one-         *)
(* character strings); a Row caches its grapheme count in `len`.           *)
(***************************************************************************)
EXTENDS Integers, Sequences, FiniteSets, TLC

VARIABLES
    row,        \* SpecRow: the Row under test
    tail,       \* SpecRow: <<>> or <<t>>, the Row returned by the last split
    rows,       \* Document.rows
    file_name,  \* Document.file_name: <<>> is None, <<n>> is Some(n)
    dirty,      \* Document.dirty
    file_type,  \* Document.file_type.name
    disk,       \* the content of the file the document is stored in
    result,     \* how the last call ended: "ok", "err", "returned", "panic"
    saved,      \* history: the row texts at the last open or save that wrote
    pre,        \* history: the state the last operation started from
    op,         \* history: the last operation and its arguments
    found,      \* what the last find returned
    rendered,   \* what the last Row::render returned
    carried,    \* what the last Row::highlight returned
    should_quit, \* Editor.should_quit
    quit_times, \* Editor.quit_times
    cursor_position, \* Editor.cursor_position
    offset,     \* Editor.offset
    status_message \* the text of Editor.status_message

vars ==
    <<row, tail, rows, file_name, dirty, file_type, disk, result, saved, pre, op,
      found, rendered, carried, should_quit, quit_times, cursor_position,
      offset, status_message>>
rowVars == <<row, tail>>
docVars == <<rows, file_name, dirty, file_type, disk>>
callVars == <<found, rendered, carried>>
editorVars == <<should_quit, quit_times, cursor_position, offset, status_message>>

\* the process died in a panic
panicked == result = "panic"

(***************************************************************************)
(* Bounds                                                                  *)
(***************************************************************************)
\* scalars held by the rows of SpecRow (row and tail together)
MaxRowLen == 4
\* rows of a document
MaxRows == 3
\* scalars held by a document, all rows together
MaxChars == 3
\* scalars of a file's content
MaxFile == 3
\* rows of a document in SpecSave, which keeps a second copy of the texts
MaxSaveRows == 2

(***************************************************************************)
(* Scalars and grapheme clusters                                           *)
(***************************************************************************)
\* "a": an ordinary letter; "R": a regional indicator symbol (two of them
\* form one flag); "m": a combining mark (Grapheme_Extend)
RowAlphabet == {"a", "R", "m"}
DocAlphabet == {"a", "R"}
\* the scalars typed into a document that is saved and opened
FileDocAlphabet == {"a"}
FileAlphabet == {"a", "\n", "\r"}

Min(a, b) == IF a < b THEN a ELSE b
Max(a, b) == IF a > b THEN a ELSE b

\* usize::saturating_sub
SatSub(a, b) == IF a > b THEN a - b ELSE 0

\* all sequences over S of length at most n
Strs(S, n) == UNION {[1..k -> S] : k \in 0..n}

RECURSIVE Concat(_)
Concat(ss) == IF ss = <<>> THEN <<>> ELSE Head(ss) \o Concat(Tail(ss))

\* Grapheme_Cluster_Break property of a scalar
Class(c) ==
    CASE c = "R" -> "RI"
      [] c = "m" -> "Extend"
      [] c = "\r" -> "CR"
      [] c = "\n" -> "LF"
      [] OTHER -> "Other"

\* the number of consecutive regional indicators that end at index i
RECURSIVE RIRun(_, _)
RIRun(s, i) == IF i = 0 \/ Class(s[i]) # "RI" THEN 0 ELSE 1 + RIRun(s, i - 1)

\* no cluster boundary between s[i] and s[i+1] (UAX #29: GB3, GB4, GB5, GB9,
\* GB12/13, GB999)
NoBreak(s, i) ==
    LET a == Class(s[i])
        b == Class(s[i + 1])
    IN  IF a = "CR" /\ b = "LF" THEN TRUE
        ELSE IF a \in {"CR", "LF"} \/ b \in {"CR", "LF"} THEN FALSE
        ELSE IF b = "Extend" THEN TRUE
        ELSE IF a = "RI" /\ b = "RI" THEN RIRun(s, i) % 2 = 1
        ELSE FALSE

RECURSIVE ClustersFrom(_, _)
ClustersFrom(s, from) ==
    IF from > Len(s) THEN <<>>
    ELSE LET e == CHOOSE j \in from..Len(s) :
                      /\ (j = Len(s) \/ ~NoBreak(s, j))
                      /\ \A k \in from..(j - 1) : NoBreak(s, k)
         IN  <<SubSeq(s, from, e)>> \o ClustersFrom(s, e + 1)

\* str.graphemes(true): the extended grapheme clusters of s, in order
Graphemes(s) == ClustersFrom(s, 1)

\* str.graphemes(true).count()
Count(s) == Len(Graphemes(s))

(***************************************************************************)
(* Row                                                                     *)
(***************************************************************************)
\* Row::from(slice)
RowFrom(s) ==
    [string |-> s, highlighting |-> <<>>, is_highlighted |-> FALSE, len |-> Count(s)]

\* Row::default()
RowDefault ==
    [string |-> <<>>, highlighting |-> <<>>, is_highlighted |-> FALSE, len |-> 0]

\* the loop of Row::insert: c is pushed before the grapheme with index at
\* (0-based), and not at all when no grapheme has that index
Spliced(g, at, c) ==
    Concat([i \in 1..Len(g) |-> IF i - 1 = at THEN <<c>> \o g[i] ELSE g[i]])

\* the length update that closes Row::insert
InsertLen(r, string) == IF Count(string) > r.len THEN r.len + 1 ELSE r.len

\* Row::insert(at, c)
RowInsert(r, at, c) ==
    LET string == IF at >= r.len THEN Append(r.string, c)
                  ELSE Spliced(Graphemes(r.string), at, c)
    IN  [r EXCEPT !.string = string, !.len = InsertLen(r, string)]

\* the loop of Row::delete: every grapheme but the one with index at
Removed(g, at) ==
    Concat([i \in 1..Len(g) |-> IF i - 1 # at THEN g[i] ELSE <<>>])

\* Row::delete(at)
RowDelete(r, at) ==
    IF at >= r.len THEN r
    ELSE [r EXCEPT !.string = Removed(Graphemes(r.string), at), !.len = r.len - 1]

\* an append that forgets the appended row's length
RowAppendNoLen(r, new) == [r EXCEPT !.string = r.string \o new.string]

\* Row::append(new)
RowAppend(r, new) ==
    [r EXCEPT !.string = r.string \o new.string, !.len = r.len + new.len]

\* the graphemes of Row::split that stay (index < at), and their number
SplitHead(g, at) == SubSeq(g, 1, Min(at, Len(g)))
SplitRest(g, at) == SubSeq(g, Min(at, Len(g)) + 1, Len(g))

\* `self.len - length` of Row::split goes below zero
RowSplitUnderflows(r, at) == r.len < Len(SplitHead(Graphemes(r.string), at))

\* Row::split(at): the row that stays and the row that is returned
RowSplit(r, at) ==
    LET g == Graphemes(r.string)
        length == Len(SplitHead(g, at))
    IN  [head |-> [r EXCEPT !.string = Concat(SplitHead(g, at)), !.len = length],
         tail |-> [string |-> Concat(SplitRest(g, at)), highlighting |-> <<>>,
                   is_highlighted |-> FALSE, len |-> r.len - length]]

\* Option<usize> and Option<Position>: None, Some, and a call that panicked
\* instead of returning
None == [tag |-> "None", y |-> 0, x |-> 0]

\* No find, render or highlight call has returned yet
NoCalls ==
    /\ found = None
    /\ rendered = <<>>
    /\ carried = FALSE

\* const QUIT_TIMES: u8 = 3
QUIT_TIMES == 3

\* Position::default()
Origin == [x |-> 0, y |-> 0]

\* Editor::default: should_quit false, quit_times QUIT_TIMES, the cursor and
\* the offset at the origin, the help text as the status message
EditorDefault ==
    /\ should_quit = FALSE
    /\ quit_times = QUIT_TIMES
    /\ cursor_position = Origin
    /\ offset = Origin
    /\ status_message = "HELP"
Some(y, x) == [tag |-> "Some", y |-> y, x |-> x]
Panicked == [tag |-> "panic", y |-> 0, x |-> 0]

\* every offset of substring, whatever starts there
AnyOffsets(substring, query) == 0..(Len(substring) - 1)

\* the offsets at which query starts in substring (str::find takes the
\* least, str::rfind the greatest)
MatchOffsets(substring, query) ==
    {i \in 0..(Len(substring) - Len(query)) :
        SubSeq(substring, i + 1, i + Len(query)) = query}

\* the graphemes that skip(start).take(take) leaves, collected into a String
Collected(g, start, take) == Concat(SubSeq(g, start + 1, Min(start + take, Len(g))))

\* the offset str::find (forward) or str::rfind takes, -1 for None
Matching(offsets, forward) ==
    IF offsets = {} THEN -1
    ELSE IF forward THEN CHOOSE i \in offsets : \A j \in offsets : i <= j
    ELSE CHOOSE i \in offsets : \A j \in offsets : j <= i

\* the indices of the graphemes of sg that start at the offset
StartingAt(sg, matching_byte_index) ==
    {k \in 0..(Len(sg) - 1) : Len(Concat(SubSeq(sg, 1, k))) = matching_byte_index}

\* what the loop over substring.grapheme_indices(true) of Row::find returns
FoundAt(start, grapheme_indices) ==
    IF grapheme_indices = {} THEN None
    ELSE Some(0, start + (CHOOSE k \in grapheme_indices : TRUE))

\* Row::find from `let matching_byte_index` on
FindIn(substring, query, start, forward) ==
    FoundAt(start, StartingAt(Graphemes(substring),
                              Matching(MatchOffsets(substring, query), forward)))

\* Row::find(query, at, direction).  `end - start` underflows when a forward
\* search starts after the cached length: a build with overflow checks
\* panics there, a build without them wraps and takes every grapheme left
RowFind(r, query, at, forward, overflow_checks) ==
    IF query = <<>> THEN None
    ELSE IF forward /\ r.len < at
         THEN IF overflow_checks THEN Panicked
              ELSE FindIn(Collected(Graphemes(r.string), at, Len(r.string)),
                          query, at, forward)
         ELSE FindIn(Collected(Graphemes(r.string), IF forward THEN at ELSE 0,
                               IF forward THEN r.len - at ELSE at),
                     query, IF forward THEN at ELSE 0, forward)

(***************************************************************************)
(* File types                                                              *)
(***************************************************************************)
\* char::to_ascii_lowercase on the letters file names are made of
Lower(c) == CASE c = "R" -> "r" [] c = "S" -> "s" [] OTHER -> c

\* name.rsplit('.').next(): the text after the last '.', the whole name when
\* it holds no '.'
LastSegment(name) ==
    LET dots == {i \in 1..Len(name) : name[i] = "."}
    IN  IF dots = {} THEN name
        ELSE SubSeq(name, (CHOOSE i \in dots : \A j \in dots : j <= i) + 1, Len(name))

\* FileType::from(file_name).name()
FileTypeFrom(name) ==
    LET ext == LastSegment(name)
    IN  IF [i \in 1..Len(ext) |-> Lower(ext[i])] = <<"r", "s">>
        THEN "Rust" ELSE "No filetype"

\* the names a document is opened from or saved as
FileNames == {<<"f", ".", "r", "s">>, <<"f">>}

(***************************************************************************)
(* Highlighting options                                                    *)
(***************************************************************************)
\* char::is_ascii_punctuation (the grave accent, which no string of this
\* module can hold, is left out)
AsciiPunctuation ==
    {"!", "\"", "#", "$", "%", "&", "'", "(", ")", "*", "+", ",", "-", ".",
     "/", ":", ";", "<", "=", ">", "?", "@", "[", "\\", "]", "^", "_", "{",
     "|", "}", "~"}

\* char::is_ascii_whitespace
AsciiWhitespace == {" ", "\t", "\n", "\r", "\f"}

\* char::is_ascii_digit
AsciiDigit == {"0", "1", "2", "3", "4", "5", "6", "7", "8", "9"}

\* str::contains(c) on a grapheme
Has(grapheme, c) == \E i \in 1..Len(grapheme) : grapheme[i] = c

\* is_separator(grapheme)
IsSeparator(grapheme) ==
    \E i \in 1..Len(grapheme) : grapheme[i] \in AsciiPunctuation \cup AsciiWhitespace

\* the primary keywords of FileType::from for "rs", in the order of the source
PrimaryKeywords ==
    <<
      <<"a", "s">>, <<"b", "r", "e", "a", "k">>, <<"c", "o", "n", "s", "t">>,
      <<"c", "o", "n", "t", "i", "n", "u", "e">>,
      <<"c", "r", "a", "t", "e">>, <<"e", "l", "s", "e">>,
      <<"e", "n", "u", "m">>, <<"e", "x", "t", "e", "r", "n">>,
      <<"f", "a", "l", "s", "e">>, <<"f", "n">>, <<"f", "o", "r">>,
      <<"i", "f">>, <<"i", "m", "p", "l">>, <<"i", "n">>, <<"l", "e", "t">>,
      <<"l", "o", "o", "p">>, <<"m", "a", "t", "c", "h">>, <<"m", "o", "d">>,
      <<"m", "o", "v", "e">>, <<"m", "u", "t">>, <<"p", "u", "b">>,
      <<"r", "e", "f">>, <<"r", "e", "t", "u", "r", "n">>,
      <<"s", "e", "l", "f">>, <<"S", "e", "l", "f">>,
      <<"s", "t", "a", "t", "i", "c">>, <<"s", "t", "r", "u", "c", "t">>,
      <<"s", "u", "p", "e", "r">>, <<"t", "r", "a", "i", "t">>,
      <<"t", "r", "u", "e">>, <<"t", "y", "p", "e">>,
      <<"u", "n", "s", "a", "f", "e">>, <<"u", "s", "e">>,
      <<"w", "h", "e", "r", "e">>, <<"w", "h", "i", "l", "e">>,
      <<"d", "y", "n">>, <<"a", "b", "s", "t", "r", "a", "c", "t">>,
      <<"b", "e", "c", "o", "m", "e">>, <<"b", "o", "x">>, <<"d", "o">>,
      <<"f", "i", "n", "a", "l">>, <<"m", "a", "c", "r", "o">>,
      <<"o", "v", "e", "r", "r", "i", "d", "e">>, <<"p", "r", "i", "v">>,
      <<"t", "y", "p", "e", "o", "f">>,
      <<"u", "n", "s", "i", "z", "e", "d">>,
      <<"v", "i", "r", "t", "u", "a", "l">>, <<"y", "i", "e", "l", "d">>,
      <<"a", "s", "y", "n", "c">>, <<"a", "w", "a", "i", "t">>,
      <<"t", "r", "y">>
    >>

\* the secondary keywords of FileType::from for "rs"
SecondaryKeywords ==
    <<
      <<"b", "o", "o", "l">>, <<"c", "h", "a", "r">>, <<"i", "8">>,
      <<"i", "1", "6">>, <<"i", "3", "2">>, <<"i", "6", "4">>,
      <<"i", "s", "i", "z", "e">>, <<"u", "8">>, <<"u", "1", "6">>,
      <<"u", "3", "2">>, <<"u", "6", "4">>, <<"u", "s", "i", "z", "e">>,
      <<"f", "3", "2">>, <<"f", "6", "4">>
    >>

\* FileType::highlighting_options() of the file type with the given name
HighlightingOptions(name) ==
    IF name = "Rust"
    THEN [numbers |-> TRUE, strings |-> TRUE, characters |-> TRUE, comments |-> TRUE,
          multiline_comments |-> TRUE, primary_keywords |-> PrimaryKeywords,
          secondary_keywords |-> SecondaryKeywords]
    ELSE [numbers |-> FALSE, strings |-> FALSE, characters |-> FALSE,
          comments |-> FALSE, multiline_comments |-> FALSE,
          primary_keywords |-> <<>>, secondary_keywords |-> <<>>]

(***************************************************************************)
(* Row::highlight.  The scan keeps index (from 0), the marks pushed so far *)
(* (hl) and start_with_comment (swc); g holds the row's graphemes.         *)
(***************************************************************************)
\* n marks of one type
Marks(type, n) == [i \in 1..n |-> type]

\* index advanced and marks pushed by a highlight_* function that returned true
Pushed(st, type, n) ==
    [index |-> st.index + n, hl |-> st.hl \o Marks(type, n), swc |-> st.swc]

\* the indices it (from 0) of g, from index `from` on, at which a grapheme
\* holding '*' is followed by one holding '/'
Closings(g, from) ==
    {it \in from..(Len(g) - 2) : Has(g[it + 1], "*") /\ Has(g[it + 2], "/")}

\* Row::highlight_multiline_comment; present is the first component of the
\* pair it returns
HighlightMultilineComment(r, g, opts, st) ==
    IF st.swc
    THEN LET closings == Closings(g, 0)
             index == IF closings = {} THEN r.len
                      ELSE (CHOOSE i \in closings : \A j \in closings : i <= j) + 2
         IN  [present |-> TRUE, index |-> index,
              hl |-> st.hl \o Marks("MultilineComment", index),
              swc |-> closings = {}]
    ELSE IF /\ opts.multiline_comments
            /\ Has(g[st.index + 1], "/")
            /\ st.index + 1 < Len(g)
            /\ Has(g[st.index + 2], "*")
         THEN LET closings == Closings(g, st.index + 2)
                  closing_index ==
                      IF closings = {} THEN r.len
                      ELSE (CHOOSE i \in closings : \A j \in closings : i <= j) + 2
              IN  [present |-> TRUE, index |-> closing_index,
                   hl |-> st.hl \o Marks("MultilineComment", closing_index - st.index),
                   swc |-> closings = {}]
         ELSE [present |-> FALSE, index |-> st.index, hl |-> st.hl, swc |-> FALSE]

\* Row::highlight_char: the index of the closing quote, or -1
ClosingQuote(g, index) ==
    IF index + 1 < Len(g)
    THEN LET closing_index == IF Has(g[index + 2], "\\") THEN index + 3 ELSE index + 2
         IN  IF closing_index < Len(g) /\ Has(g[closing_index + 1], "'")
             THEN closing_index ELSE -1
    ELSE -1

\* Row::highlight_comment finds "//" at index
LineCommentAt(g, index) ==
    Has(g[index + 1], "/") /\ index + 1 < Len(g) /\ Has(g[index + 2], "/")

\* Row::highlight_str: the graphemes from index on are those of substring
StrAt(g, index, substring) ==
    /\ substring # <<>>
    /\ \A i \in 1..Len(substring) :
          index + i <= Len(g) /\ g[index + i] = <<substring[i]>>

\* no keyword is skipped: matching by prefix
FollowedByAnything(r, g, index, word) == FALSE

\* Row::highlight_keywords skips a keyword that a non-separator follows
FollowedByWord(r, g, index, word) ==
    /\ index < SatSub(r.len, Len(word))
    /\ index + Len(word) < Len(g)
    /\ ~IsSeparator(g[index + Len(word) + 1])

\* Row::highlight_keywords: the places in keywords of the words it can mark at
\* index (it marks the first)
KeywordsAt(r, g, index, keywords) ==
    IF index > 0 /\ ~IsSeparator(g[index]) THEN {}
    ELSE {k \in 1..Len(keywords) :
             ~FollowedByWord(r, g, index, keywords[k]) /\ StrAt(g, index, keywords[k])}

\* the loop of Row::highlight_string: the index at which it breaks
RECURSIVE StringBreak(_, _)
StringBreak(g, index) ==
    IF index + 1 >= Len(g) THEN index + 1
    ELSE IF Has(g[index + 2], "\\") THEN StringBreak(g, index + 2)
    ELSE IF Has(g[index + 2], "\"") THEN index + 1
    ELSE StringBreak(g, index + 1)

\* Row::highlight_number: a grapheme with a digit, not after a non-separator
NumberAt(g, index) ==
    /\ \E i \in 1..Len(g[index + 1]) : g[index + 1][i] \in AsciiDigit
    /\ ~(index > 0 /\ ~IsSeparator(g[index]))

\* the loop of Row::highlight_number: the index at which it breaks
RECURSIVE NumberBreak(_, _)
NumberBreak(g, index) ==
    IF index + 1 >= Len(g) THEN index + 1
    ELSE IF \E i \in 1..Len(g[index + 2]) : g[index + 2][i] \notin AsciiDigit \cup {"."}
         THEN index + 1
         ELSE NumberBreak(g, index + 1)

\* one pass of the loop of Row::highlight after highlight_multiline_comment
\* found nothing: the first of the highlight_* functions that returns true,
\* or one mark None
Token(r, g, opts, st) ==
    LET index == st.index
        primary == KeywordsAt(r, g, index, opts.primary_keywords)
        secondary == KeywordsAt(r, g, index, opts.secondary_keywords)
        first(ks) == CHOOSE k \in ks : \A j \in ks : k <= j
    IN  IF opts.characters /\ Has(g[index + 1], "'") /\ ClosingQuote(g, index) >= 0
        THEN Pushed(st, "Character", ClosingQuote(g, index) - index + 1)
        ELSE IF opts.comments /\ LineCommentAt(g, index)
        THEN Pushed(st, "Comment", Max(r.len - index, 0))
        ELSE IF primary # {}
        THEN Pushed(st, "PrimaryKeywords", Len(opts.primary_keywords[first(primary)]))
        ELSE IF secondary # {}
        THEN Pushed(st, "SecondaryKeywords",
                    Len(opts.secondary_keywords[first(secondary)]))
        ELSE IF opts.strings /\ Has(g[index + 1], "\"")
        THEN Pushed(st, "String", StringBreak(g, index) + 1 - index)
        ELSE IF opts.numbers /\ NumberAt(g, index)
        THEN Pushed(st, "Number", NumberBreak(g, index) - index)
        ELSE Pushed(st, "None", 1)

\* the loop of Row::highlight
RECURSIVE HighlightLoop(_, _, _, _)

\* one pass of the loop, ml being what highlight_multiline_comment returned
HighlightPass(r, g, opts, st, ml) ==
    IF ml.present
    THEN HighlightLoop(r, g, opts, [index |-> ml.index, hl |-> ml.hl, swc |-> ml.swc])
    ELSE HighlightLoop(r, g, opts, Token(r, g, opts, [st EXCEPT !.swc = FALSE]))

HighlightLoop(r, g, opts, st) ==
    IF st.index >= Len(g) THEN st
    ELSE HighlightPass(r, g, opts, st, HighlightMultilineComment(r, g, opts, st))

\* the loop of Row::highlight_match: the marks with every match of the word
\* overlaid, or a panic (of Row::find, or of self.highlighting[i] past the
\* last mark)
RECURSIVE MatchLoop(_, _, _, _, _)

\* one pass of the loop, search_match being what Row::find returned and
\* next_index the index after the match
MatchPass(r, hl, word, overflow_checks, search_match, next_index) ==
    IF search_match.tag = "panic" THEN [hl |-> hl, panic |-> TRUE]
    ELSE IF search_match.tag = "None" THEN [hl |-> hl, panic |-> FALSE]
    ELSE IF next_index > Len(hl) THEN [hl |-> hl, panic |-> TRUE]
    ELSE MatchLoop(r,
                   [i \in 1..Len(hl) |->
                       IF search_match.x < i /\ i <= next_index THEN "Match"
                       ELSE hl[i]],
                   word, next_index, overflow_checks)

\* the index after a match
NextIndex(search_match, word) == search_match.x + Count(word)

\* the loop with the match passed on
MatchFrom(r, hl, word, overflow_checks, search_match) ==
    MatchPass(r, hl, word, overflow_checks, search_match, NextIndex(search_match, word))

MatchLoop(r, hl, word, index, overflow_checks) ==
    MatchFrom(r, hl, word, overflow_checks,
              RowFind(r, word, index, TRUE, overflow_checks))

\* Row::highlight_match(word); word is <<>> for None, <<w>> for Some(w)
HighlightMatch(r, hl, word, overflow_checks) ==
    IF word = <<>> \/ word[1] = <<>> THEN [hl |-> hl, panic |-> FALSE]
    ELSE MatchLoop(r, hl, word[1], 0, overflow_checks)

\* what Row::highlight returns when it skips a row that is highlighted
SkipCarries(r, g) ==
    /\ r.highlighting[Len(r.highlighting)] = "MultilineComment"
    /\ r.len > 1
    /\ IF r.len - 2 < Len(g) /\ Has(g[r.len - 1], "*")
       THEN IF r.len - 1 < Len(g) THEN ~Has(g[r.len], "/") ELSE TRUE
       ELSE TRUE

\* Row::highlight skips the row
Skips(r, word) == r.is_highlighted /\ word = <<>> /\ r.highlighting # <<>>

\* the end of Row::highlight, matched being what highlight_match left
Flagged(r, swc, matched) ==
    [row |-> [r EXCEPT !.highlighting = matched.hl, !.is_highlighted = ~matched.panic],
     swc |-> swc, panic |-> matched.panic]

\* Row::highlight after its loop, which left st
Tokenized(r, word, overflow_checks, st) ==
    Flagged(r, st.swc, HighlightMatch(r, st.hl, word, overflow_checks))

\* Row::highlight(opts, word, start_with_comment): the row after the call,
\* the value returned (swc), and whether the call panicked
RowHighlight(r, opts, word, start_with_comment, overflow_checks) ==
    IF Skips(r, word)
    THEN [row |-> r, swc |-> SkipCarries(r, Graphemes(r.string)), panic |-> FALSE]
    ELSE Tokenized(r, word, overflow_checks,
                   HighlightLoop(r, Graphemes(r.string), opts,
                                 [index |-> 0, hl |-> <<>>, swc |-> start_with_comment]))

\* the bytes of a scalar in UTF-8 (a regional indicator takes 4, the
\* combining mark 2)
Utf8Len(c) == CASE c = "R" -> 4 [] c = "m" -> 2 [] OTHER -> 1

\* String::len(): the length of a string in bytes
ByteLen(string) == Len(Concat([i \in 1..Len(string) |-> Marks("b", Utf8Len(string[i]))]))

\* what Row::render appends to `result`
Color(type) == [kind |-> "color", v |-> type]
Char(c) == [kind |-> "char", v |-> c]
Reset == [kind |-> "reset", v |-> ""]

\* the loop of Row::render from the grapheme with index `index` up to, not
\* including, the one with index `stop`
RECURSIVE RenderLoop(_, _, _, _, _)
RenderLoop(r, g, index, stop, current_highlighting) ==
    IF index >= stop THEN <<>>
    ELSE LET highlighting_type ==
                 IF index < Len(r.highlighting) THEN r.highlighting[index + 1]
                 ELSE "None"
             c == g[index + 1][1]
         IN  (IF highlighting_type # current_highlighting
              THEN <<Color(highlighting_type)>> ELSE <<>>)
                 \o <<Char(IF c = "\t" THEN " " ELSE c)>>
                 \o RenderLoop(r, g, index + 1, stop, highlighting_type)

\* Row::render(start, end)
Render(r, start, end) ==
    LET g == Graphemes(r.string)
        e == Min(end, ByteLen(r.string))
        b == Min(start, e)
    IN  RenderLoop(r, g, b, Min(e, Len(g)), "None") \o <<Reset>>

(***************************************************************************)
(* Document                                                                *)
(***************************************************************************)
\* the texts of the rows, in order
Texts(rs) == [i \in 1..Len(rs) |-> rs[i].string]

\* lines that keep the "\r" of a "\r\n" terminator
RECURSIVE LinesKeepCR(_)
LinesKeepCR(content) ==
    IF content = <<>> THEN <<>>
    ELSE LET nls == {i \in 1..Len(content) : content[i] = "\n"}
         IN  IF nls = {} THEN <<content>>
             ELSE LET n == CHOOSE i \in nls : \A j \in nls : i <= j
                  IN  <<SubSeq(content, 1, n - 1)>>
                          \o LinesKeepCR(SubSeq(content, n + 1, Len(content)))

\* str::lines(): the lines of a content; a line ends at "\n" or "\r\n", the
\* terminator is not part of the line, and a last line needs none
RECURSIVE Lines(_)
Lines(content) ==
    IF content = <<>> THEN <<>>
    ELSE LET nls == {i \in 1..Len(content) : content[i] = "\n"}
         IN  IF nls = {} THEN <<content>>
             ELSE LET n == CHOOSE i \in nls : \A j \in nls : i <= j
                      line == SubSeq(content, 1, n - 1)
                      stripped == IF line # <<>> /\ line[Len(line)] = "\r"
                                  THEN SubSeq(line, 1, Len(line) - 1) ELSE line
                  IN  <<stripped>> \o Lines(SubSeq(content, n + 1, Len(content)))

\* an open without the row that follows a final line terminator
OpenRowsNoLast(content) ==
    LET lines == Lines(content)
    IN  [i \in 1..Len(lines) |-> RowFrom(lines[i])]

\* the rows Document::open builds from a file's content
OpenRows(content) ==
    LET lines == Lines(content)
        rs == [i \in 1..Len(lines) |-> RowFrom(lines[i])]
    IN  IF content # <<>> /\ content[Len(content)] = "\n"
        THEN Append(rs, RowFrom(<<>>)) ELSE rs

\* Document::row_len(y)
RowLen(rs, y) == IF y < Len(rs) THEN rs[y + 1].len ELSE 0

\* the rows from `start` on lose their flag, the row above `start` keeping
\* its own
UnhighlightFromStart(rs, start) ==
    [i \in 1..Len(rs) |->
        IF i - 1 >= start THEN [rs[i] EXCEPT !.is_highlighted = FALSE]
        ELSE rs[i]]

\* Document::unhighlight_rows(start)
UnhighlightRows(rs, start) ==
    [i \in 1..Len(rs) |->
        IF i - 1 >= SatSub(start, 1) THEN [rs[i] EXCEPT !.is_highlighted = FALSE]
        ELSE rs[i]]

\* every row, whatever the hint
HighlightToEnd(rs, until) == Len(rs)

\* the number of rows Document::highlight(word, until) goes through; until
\* is <<>> for None, <<u>> for Some(u)
HighlightUntil(rs, until) ==
    IF until # <<>> /\ until[1] + 1 < Len(rs) THEN until[1] + 1 ELSE Len(rs)

\* the loop of Document::highlight from the row with index i (from 0) up to,
\* not including, the row with index n
RECURSIVE HighlightRows(_, _, _, _, _, _, _)

\* one pass of the loop, h being what row.highlight left and returned
HighlightRow(rs, opts, word, i, n, overflow_checks, h) ==
    IF h.panic THEN [rows |-> [rs EXCEPT ![i + 1] = h.row], panic |-> TRUE]
    ELSE HighlightRows([rs EXCEPT ![i + 1] = h.row], opts, word, i + 1, n,
                       h.swc, overflow_checks)

HighlightRows(rs, opts, word, i, n, start_with_comment, overflow_checks) ==
    IF i >= n THEN [rows |-> rs, panic |-> FALSE]
    ELSE HighlightRow(rs, opts, word, i, n, overflow_checks,
                      RowHighlight(rs[i + 1], opts, word, start_with_comment,
                                   overflow_checks))

\* Document::highlight(word, until)
DocHighlight(rs, type, word, until, overflow_checks) ==
    HighlightRows(rs, HighlightingOptions(type), word, 0, HighlightUntil(rs, until),
                  FALSE, overflow_checks)

\* a line break that gives the empty document no row at all
InsertNewlineNone(rs, y, x) ==
    IF rs = <<>> THEN <<>>
    ELSE LET sp == RowSplit(rs[y + 1], x)
         IN  SubSeq(rs, 1, y) \o <<sp.head, sp.tail>> \o SubSeq(rs, y + 2, Len(rs))

\* a line break that gives the empty document one row only
InsertNewlineOne(rs, y, x) ==
    IF rs = <<>> THEN <<RowDefault>>
    ELSE LET sp == RowSplit(rs[y + 1], x)
         IN  SubSeq(rs, 1, y) \o <<sp.head, sp.tail>> \o SubSeq(rs, y + 2, Len(rs))

\* Document::insert_newline(at)
InsertNewline(rs, y, x) ==
    IF rs = <<>> THEN <<RowDefault, RowDefault>>
    ELSE LET sp == RowSplit(rs[y + 1], x)
         IN  SubSeq(rs, 1, y) \o <<sp.head, sp.tail>> \o SubSeq(rs, y + 2, Len(rs))

\* Document::insert indexes rows[at.y] out of bounds, or Row::split underflows
InsertPanics(rs, y, x, c) ==
    /\ rs # <<>>
    /\ \/ y >= Len(rs)
       \/ c = "\n" /\ RowSplitUnderflows(rs[y + 1], x)

\* the rows after Document::insert(at, c)
DocInsert(rs, y, x, c) ==
    UnhighlightRows(
        IF c = "\n" THEN InsertNewline(rs, y, x)
        ELSE IF rs = <<>> THEN <<RowInsert(RowDefault, 0, c)>>
        ELSE [rs EXCEPT ![y + 1] = RowInsert(@, x, c)],
        y)

\* the guard that opens Document::delete
DeleteReturns(rs, y, x) ==
    rs = <<>> \/ (x = RowLen(rs, y) /\ ~(y + 1 < Len(rs)))

\* a join that leaves out the last pair of rows
DeleteJoinsShort(rs, y, x) == x = RowLen(rs, y) /\ y + 2 < Len(rs)

\* Document::delete joins row at.y with the row after it
DeleteJoins(rs, y, x) == x = RowLen(rs, y) /\ y + 1 < Len(rs)

\* Document::delete indexes rows[at.y] out of bounds
DeletePanics(rs, y, x) ==
    ~DeleteReturns(rs, y, x) /\ ~DeleteJoins(rs, y, x) /\ y >= Len(rs)

\* the rows after a Document::delete(at) that passed its guard
DocDelete(rs, y, x) ==
    UnhighlightRows(
        IF DeleteJoins(rs, y, x)
        THEN SubSeq(rs, 1, y) \o <<RowAppend(rs[y + 1], rs[y + 2])>>
                 \o SubSeq(rs, y + 3, Len(rs))
        ELSE [rs EXCEPT ![y + 1] = RowDelete(@, x)],
        y)

\* the loop of Document::find, with n passes left and position (y, x)
RECURSIVE FindLoop(_, _, _, _, _, _, _)

\* one pass of the loop, f being what row.find returned
FindPass(rs, query, y, forward, overflow_checks, n, f) ==
    IF f.tag = "panic" THEN Panicked
    ELSE IF f.tag = "Some" THEN Some(y, f.x)
    ELSE IF forward
         THEN FindLoop(rs, query, y + 1, 0, forward, overflow_checks, n - 1)
         ELSE FindLoop(rs, query, SatSub(y, 1), rs[SatSub(y, 1) + 1].len,
                       forward, overflow_checks, n - 1)

FindLoop(rs, query, y, x, forward, overflow_checks, n) ==
    IF n = 0 \/ y >= Len(rs) THEN None
    ELSE FindPass(rs, query, y, forward, overflow_checks, n,
                  RowFind(rs[y + 1], query, x, forward, overflow_checks))

\* Document::find(query, at, direction)
DocFind(rs, query, y, x, forward, overflow_checks) ==
    FindLoop(rs, query, y, x, forward, overflow_checks,
             IF forward THEN SatSub(Len(rs), y) ELSE y + 1)

\* a save that ends the last row with a newline as well
RECURSIVE SaveFromTrailing(_, _)
SaveFromTrailing(rs, i) ==
    IF i >= Len(rs) THEN <<>>
    ELSE rs[i + 1].string \o <<"\n">> \o SaveFromTrailing(rs, i + 1)

\* the bytes the loop of Document::save writes, from the row with index i on
RECURSIVE SaveFrom(_, _)
SaveFrom(rs, i) ==
    IF i >= Len(rs) THEN <<>>
    ELSE rs[i + 1].string
             \o (IF i < Len(rs) - 1 THEN <<"\n">> ELSE <<>>)
             \o SaveFrom(rs, i + 1)

\* everything Document::save writes when no write fails
SaveBytes(rs) == SaveFrom(rs, 0)

DocScalars(rs) == Len(Concat(Texts(rs)))

\* the model's bounds on a document
InBounds(rs) ==
    /\ Len(rs) <= MaxRows
    /\ DocScalars(rs) <= MaxChars
    /\ \A i \in 1..Len(rs) : rs[i].len <= Len(rs[i].string)

\* the contents a file starts with
Contents == Strs(FileAlphabet, MaxFile)

(***************************************************************************)
(* Document's operations                                                   *)
(***************************************************************************)
\* Document::insert(at, c) with at = Position {x, y}
Insert(y, x, c) ==
    /\ ~panicked
    /\ dirty' = TRUE
    /\ IF InsertPanics(rows, y, x, c)
       THEN /\ result' = "panic"
            /\ UNCHANGED rows
       ELSE /\ rows' = DocInsert(rows, y, x, c)
            /\ result' = "ok"
    /\ UNCHANGED <<file_name, file_type, disk>>

\* Document::delete(at) with at = Position {x, y}
Delete(y, x) ==
    /\ ~panicked
    /\ IF DeleteReturns(rows, y, x)
       THEN /\ result' = "returned"
            /\ UNCHANGED <<rows, dirty>>
       ELSE /\ dirty' = TRUE
            /\ IF DeletePanics(rows, y, x)
               THEN /\ result' = "panic"
                    /\ UNCHANGED rows
               ELSE /\ rows' = DocDelete(rows, y, x)
                    /\ result' = "ok"
    /\ UNCHANGED <<file_name, file_type, disk>>

\* a save that clears the flag whatever became of the writes
SaveDirtyAlways(outcome) == FALSE

\* a save that never reaches the line that clears the flag
SaveDirtyNever(outcome) == dirty

\* the dirty flag Document::save leaves once the file is created: cleared
\* after the loop, which a failing write leaves with `?`
SaveDirty(outcome) == IF outcome = "ok" THEN FALSE ELSE dirty

\* Document::save(); outcome is what the file system does: "ok", "create_err"
\* (File::create fails) or "write_err" (a write_all fails after n bytes)
Save(outcome, n) ==
    /\ ~panicked
    /\ IF file_name = <<>>
       THEN /\ outcome = "ok" /\ n = 0
            /\ result' = "ok"
            /\ UNCHANGED <<dirty, file_type, disk>>
       ELSE CASE outcome = "create_err" ->
                 /\ n = 0
                 /\ result' = "err"
                 /\ UNCHANGED <<dirty, file_type, disk>>
              [] outcome = "write_err" ->
                 /\ n < Len(SaveBytes(rows))
                 /\ file_type' = FileTypeFrom(file_name[1])
                 /\ disk' = SubSeq(SaveBytes(rows), 1, n)
                 /\ dirty' = SaveDirty(outcome)
                 /\ result' = "err"
              [] outcome = "ok" ->
                 /\ n = 0
                 /\ file_type' = FileTypeFrom(file_name[1])
                 /\ disk' = SaveBytes(rows)
                 /\ dirty' = SaveDirty(outcome)
                 /\ result' = "ok"
    /\ UNCHANGED <<rows, file_name>>

\* Document::open(filename) on a readable file
Open(name) ==
    /\ ~panicked
    /\ rows' = OpenRows(disk)
    /\ file_name' = <<name>>
    /\ dirty' = FALSE
    /\ file_type' = FileTypeFrom(name)
    /\ result' = "ok"
    /\ UNCHANGED disk

\* Document::open fails to read the file and Editor::default falls back to
\* Document::default()
OpenFails ==
    /\ ~panicked
    /\ rows' = <<>>
    /\ file_name' = <<>>
    /\ dirty' = FALSE
    /\ file_type' = "No filetype"
    /\ result' = "err"
    /\ UNCHANGED disk

\* Editor::save gives a document without a name the name the user typed
SetFileName(name) ==
    /\ ~panicked
    /\ file_name = <<>>
    /\ file_name' = <<name>>
    /\ result' = "ok"
    /\ UNCHANGED <<rows, dirty, file_type, disk>>

\* the rows that Document::highlight leaves, and whether it returned
Highlighted(h) ==
    /\ rows' = h.rows
    /\ result' = IF h.panic THEN "panic" ELSE "ok"

\* Document::highlight(word, until)
Highlight(word, until, overflow_checks) ==
    /\ ~panicked
    /\ Highlighted(DocHighlight(rows, file_type, word, until, overflow_checks))
    /\ UNCHANGED <<file_name, dirty, file_type, disk>>

(***************************************************************************)
(* History                                                                 *)
(***************************************************************************)
\* an operation, its arguments, and the kind of the operation before it
Op(kind, y, x, c) == [kind |-> kind, y |-> y, x |-> x, c |-> c, prev |-> op.kind]
NoOp == [kind |-> "none", y |-> 0, x |-> 0, c |-> "", prev |-> "none"]

\* what an operation of a Document starts from
Pre == [rows |-> rows, dirty |-> dirty, file_name |-> file_name, disk |-> disk]
NoPre == [rows |-> <<>>, dirty |-> FALSE, file_name |-> <<>>, disk |-> <<>>]

\* record the operation, its arguments and the state it starts from
Hist(kind, y, x, c) == op' = Op(kind, y, x, c) /\ pre' = Pre

\* record the kind of the operation and of the one before it
Step(kind) == op' = [NoOp EXCEPT !.kind = kind, !.prev = op.kind] /\ UNCHANGED pre

\* record the kind of the operation only
Brief(kind) == op' = [NoOp EXCEPT !.kind = kind] /\ UNCHANGED pre

\* the row texts as of the last open, or save that wrote the file
TrackSaved ==
    saved' = IF \/ op'.kind = "open"
                \/ op'.kind = "save" /\ result' = "ok" /\ file_name # <<>>
             THEN Texts(rows') ELSE saved

\* Document::default()
DefaultDocument ==
    /\ rows = <<>>
    /\ file_name = <<>>
    /\ dirty = FALSE
    /\ file_type = "No filetype"

\* the positions callers pass: every row index up to two past the last row,
\* every column up to one past the row's length
Ys == 0..(Len(rows) + 1)
Xs(y) == 0..(RowLen(rows, y) + 1)

(***************************************************************************)
(* SpecRow: one Row driven through its own operations                      *)
(***************************************************************************)
RowScalars == Len(row.string) + (IF tail = <<>> THEN 0 ELSE Len(tail[1].string))

RowPre == [row |-> row, tail |-> tail]

\* Row::insert(at, c) on the row
RInsert(at, c) ==
    /\ ~panicked
    /\ RowScalars < MaxRowLen
    /\ RowInsert(row, at, c).len <= MaxRowLen
    /\ row' = RowInsert(row, at, c)
    /\ result' = "ok"
    /\ pre' = RowPre
    /\ op' = Op("insert", 0, at, c)
    /\ UNCHANGED <<tail, docVars, saved, callVars, editorVars>>

\* Row::delete(at) on the row
RDelete(at) ==
    /\ ~panicked
    /\ row' = RowDelete(row, at)
    /\ result' = "ok"
    /\ pre' = RowPre
    /\ op' = Op("delete", 0, at, "")
    /\ UNCHANGED <<tail, docVars, saved, callVars, editorVars>>

\* Row::split(at) on the row; the returned row is kept in tail
RSplit(at) ==
    /\ ~panicked
    /\ pre' = RowPre
    /\ op' = Op("split", 0, at, "")
    /\ IF RowSplitUnderflows(row, at)
       THEN /\ result' = "panic"
            /\ UNCHANGED <<row, tail>>
       ELSE /\ row' = RowSplit(row, at).head
            /\ tail' = <<RowSplit(row, at).tail>>
            /\ result' = "ok"
    /\ UNCHANGED <<docVars, saved, callVars, editorVars>>

\* Row::append(&t) with the row a split returned
RAppend ==
    /\ ~panicked
    /\ tail # <<>>
    /\ RowAppend(row, tail[1]).len <= MaxRowLen
    /\ row' = RowAppend(row, tail[1])
    /\ tail' = <<>>
    /\ result' = "ok"
    /\ pre' = RowPre
    /\ op' = Op("append", 0, 0, "")
    /\ UNCHANGED <<docVars, saved, callVars, editorVars>>

InitRow ==
    /\ row \in {RowFrom(s) : s \in Strs(RowAlphabet, MaxRowLen - 1)}
    /\ tail = <<>>
    /\ DefaultDocument
    /\ disk = <<>>
    /\ result = "ok"
    /\ saved = <<>>
    /\ pre = [row |-> row, tail |-> tail]
    /\ op = NoOp
    /\ NoCalls
    /\ EditorDefault

NextRow ==
    \/ \E at \in 0..(row.len + 1), c \in RowAlphabet : RInsert(at, c)
    \/ \E at \in 0..row.len : RDelete(at)
    \/ \E at \in 0..(row.len + 1) : RSplit(at)
    \/ RAppend

SpecRow == InitRow /\ [][NextRow]_vars

(***************************************************************************)
(* Spec: a Document edited through insert and delete                       *)
(***************************************************************************)
Init ==
    /\ DefaultDocument
    /\ disk = <<>>
    /\ result = "ok"
    /\ saved = <<>>
    /\ pre = NoPre
    /\ op = NoOp
    /\ NoCalls
    /\ EditorDefault
    /\ row = RowDefault
    /\ tail = <<>>

EditInsert ==
    \E y \in Ys : \E x \in Xs(y) :
        \E c \in DocAlphabet \cup {"\n"} :
            /\ Insert(y, x, c) /\ InBounds(rows')
            /\ Hist("insert", y, x, c) /\ UNCHANGED <<saved, rowVars, callVars, editorVars>>

EditDelete ==
    \E y \in Ys : \E x \in Xs(y) :
        /\ Delete(y, x) /\ InBounds(rows')
        /\ Hist("delete", y, x, "") /\ UNCHANGED <<saved, rowVars, callVars, editorVars>>

Next == EditInsert \/ EditDelete

Spec == Init /\ [][Next]_vars

(***************************************************************************)
(* SpecSave: a Document edited, saved and opened, with the row texts of    *)
(* the last open or save kept in `saved`                                   *)
(***************************************************************************)
\* the bound SpecSave puts on the rows of its document
SaveBound == Len(rows') <= MaxSaveRows /\ InBounds(rows')

SaveInsert ==
    \E y \in Ys : \E x \in Xs(y) :
        \E c \in FileDocAlphabet \cup {"\n"} :
            Insert(y, x, c) /\ Brief("insert") /\ TrackSaved /\ SaveBound /\ UNCHANGED <<rowVars, callVars, editorVars>>

SaveDelete ==
    \E y \in Ys : \E x \in Xs(y) :
        Delete(y, x) /\ Brief("delete") /\ TrackSaved /\ SaveBound /\ UNCHANGED <<rowVars, callVars, editorVars>>

\* a failing write is the first one
SaveSave ==
    \E outcome \in {"ok", "create_err", "write_err"} :
        Save(outcome, 0) /\ Brief("save") /\ TrackSaved /\ SaveBound /\ UNCHANGED <<rowVars, callVars, editorVars>>

SaveOpen ==
    \E name \in FileNames :
        Open(name) /\ Brief("open") /\ TrackSaved /\ SaveBound /\ UNCHANGED <<rowVars, callVars, editorVars>>

SaveOpenFails ==
    OpenFails /\ Brief("open") /\ TrackSaved /\ SaveBound /\ UNCHANGED <<rowVars, callVars, editorVars>>

SaveSetFileName ==
    \E name \in FileNames :
        SetFileName(name) /\ Brief("set_file_name") /\ TrackSaved /\ SaveBound
            /\ UNCHANGED <<rowVars, callVars, editorVars>>

InitSave ==
    /\ DefaultDocument
    /\ disk = <<>>
    /\ result = "ok"
    /\ saved = <<>>
    /\ pre = NoPre
    /\ op = NoOp
    /\ NoCalls
    /\ EditorDefault
    /\ row = RowDefault
    /\ tail = <<>>

NextSave ==
    \/ SaveInsert
    \/ SaveDelete
    \/ SaveSave
    \/ SaveOpen
    \/ SaveOpenFails
    \/ SaveSetFileName

SpecSave == InitSave /\ [][NextSave]_vars

(***************************************************************************)
(* SpecFile: a Document opened from and saved to a file whose content is   *)
(* arbitrary at first, with no edit                                        *)
(***************************************************************************)
\* a failing write fails after any number of bytes
FileSave ==
    \E outcome \in {"ok", "create_err", "write_err"} :
        \E n \in 0..Len(SaveBytes(rows)) :
            Save(outcome, n) /\ Hist("save", 0, 0, "") /\ UNCHANGED <<saved, rowVars, callVars, editorVars>>

FileOpen ==
    \E name \in FileNames :
        Open(name) /\ Hist("open", 0, 0, "") /\ UNCHANGED <<saved, rowVars, callVars, editorVars>>

FileOpenFails ==
    OpenFails /\ Hist("open", 0, 0, "") /\ UNCHANGED <<saved, rowVars, callVars, editorVars>>

FileSetFileName ==
    \E name \in FileNames :
        SetFileName(name) /\ Hist("set_file_name", 0, 0, "") /\ UNCHANGED <<saved, rowVars, callVars, editorVars>>

InitFile ==
    /\ DefaultDocument
    /\ disk \in Contents
    /\ result = "ok"
    /\ saved = <<>>
    /\ pre = NoPre
    /\ op = NoOp
    /\ NoCalls
    /\ EditorDefault
    /\ row = RowDefault
    /\ tail = <<>>

NextFile ==
    \/ FileSave
    \/ FileOpen
    \/ FileOpenFails
    \/ FileSetFileName

SpecFile == InitFile /\ [][NextFile]_vars

(***************************************************************************)
(* SpecHl: a Rust document that is edited at the positions a cursor takes, *)
(* and highlighted as a whole after every edit, as by an editor that       *)
(* highlights before it draws                                              *)
(***************************************************************************)
\* rows of the document of SpecHl, and scalars held by all of them
MaxHlRows == 3
MaxHlChars == 5

\* the ends of a block comment, and a letter
HlAlphabet == {"/", "*", "a"}

HlBound == Len(rows') <= MaxHlRows /\ DocScalars(rows') <= MaxHlChars

\* the positions of a cursor: a row of the document, a column up to its end
CursorYs == 0..SatSub(Len(rows), 1)
CursorXs(y) == 0..RowLen(rows, y)

\* the last edit, if any, has been followed by a highlight
Drawn == op.kind \in {"none", "highlight"}

HlInsert ==
    \E y \in CursorYs : \E x \in CursorXs(y) :
        \E c \in HlAlphabet \cup {"\n"} :
            /\ Drawn
            /\ Insert(y, x, c) /\ HlBound
            /\ Step("insert") /\ UNCHANGED <<saved, rowVars, callVars, editorVars>>

HlDelete ==
    \E y \in CursorYs : \E x \in CursorXs(y) :
        /\ Drawn
        /\ Delete(y, x) /\ HlBound
        /\ Step("delete") /\ UNCHANGED <<saved, rowVars, callVars, editorVars>>

HlHighlight ==
    \E overflow_checks \in BOOLEAN :
        /\ Highlight(<<>>, <<>>, overflow_checks)
        /\ Step("highlight")
        /\ UNCHANGED <<saved, rowVars, callVars, editorVars>>

\* the document opened from an empty file named f.rs
InitHl ==
    /\ rows = <<>>
    /\ file_name = <<(<<"f", ".", "r", "s">>)>>
    /\ dirty = FALSE
    /\ file_type = "Rust"
    /\ disk = <<>>
    /\ result = "ok"
    /\ saved = <<>>
    /\ pre = NoPre
    /\ op = NoOp
    /\ NoCalls
    /\ EditorDefault
    /\ row = RowDefault
    /\ tail = <<>>

NextHl ==
    \/ HlInsert
    \/ HlDelete
    \/ HlHighlight

SpecHl == InitHl /\ [][NextHl]_vars

(***************************************************************************)
(* The claims about dirty and Document::save, under SpecSave               *)
(***************************************************************************)
\* a save that got as far as writing, and wrote everything
SaveWrote == op.kind = "save" /\ result = "ok" /\ file_name # <<>>

\* C1 as stated: in every reachable state dirty is true exactly when the row
\* texts differ from the content at the last successful open or save
C1_DirtyIffDiffers == dirty <=> (Texts(rows) # saved)

\* C1, the direction that holds: whenever dirty is false the row texts are
\* those of the last open, or of the last save that wrote the file (an open
\* that failed leaves the empty document, whose texts are those of no file)
C1_CleanMeansSaved == ~dirty => Texts(rows) = saved

\* a save has written an edited, non-empty document and cleared the flag
C1_Witness ==
    /\ SaveWrote
    /\ ~dirty
    /\ DocScalars(rows) > 0
    /\ saved = Texts(rows)

\* C2 as stated: a save that returns Ok leaves dirty false, a save that
\* returns an error leaves dirty and the row texts as they were
C2_SaveClearsOnOk ==
    [][op'.kind = "save" =>
          /\ (result' = "ok" => ~dirty')
          /\ (result' = "err" => dirty' = dirty /\ Texts(rows') = Texts(rows))]_vars

\* C2 for the save that has a file name and the save that has none: Ok with
\* a file name leaves dirty false; with no file name save returns Ok, writes
\* nothing and leaves dirty as it was; an error leaves dirty and the row
\* texts as they were; no save changes the row texts
C2_SaveClearsWhenNamed ==
    [][op'.kind = "save" =>
          /\ (result' = "ok" /\ file_name # <<>> => ~dirty')
          /\ (result' = "ok" /\ file_name = <<>> => dirty' = dirty /\ disk' = disk)
          /\ (result' = "err" => dirty' = dirty)
          /\ Texts(rows') = Texts(rows)]_vars

\* a save of a modified document with no file name has returned Ok
C2_Witness ==
    /\ op.kind = "save"
    /\ result = "ok"
    /\ file_name = <<>>
    /\ dirty
    /\ rows # <<>>

(***************************************************************************)
(* The claims about Document::open and what Document::save writes, under   *)
(* SpecFile                                                                *)
(***************************************************************************)
\* the indices of a content's newlines, and the k-th of them
NewlinesOf(content) == {i \in 1..Len(content) : content[i] = "\n"}
NthNewline(content, k) ==
    CHOOSE i \in NewlinesOf(content) :
        Cardinality({j \in NewlinesOf(content) : j <= i}) = k

EndsWithNewline(content) == content # <<>> /\ content[Len(content)] = "\n"

\* a content's lines: one for each newline, and one more for what follows
\* the last newline when that is not empty
LineCount(content) ==
    Cardinality(NewlinesOf(content))
        + (IF content # <<>> /\ ~EndsWithNewline(content) THEN 1 ELSE 0)

\* the k-th line, without the "\n" or "\r\n" that ends it
LineOf(content, k) ==
    LET from == IF k = 1 THEN 1 ELSE NthNewline(content, k - 1) + 1
        terminated == k <= Cardinality(NewlinesOf(content))
        to == IF terminated THEN NthNewline(content, k) - 1 ELSE Len(content)
    IN  IF terminated /\ to >= from /\ content[to] = "\r"
        THEN SubSeq(content, from, to - 1)
        ELSE SubSeq(content, from, to)

\* "\n" is the content's only line terminator: no "\r" stands before a "\n"
\* or at the end of the content
NewlineOnly(content) ==
    /\ \A i \in 1..(Len(content) - 1) : ~(content[i] = "\r" /\ content[i + 1] = "\n")
    /\ content = <<>> \/ content[Len(content)] # "\r"

\* C3: a save that succeeds right after a successful open of a content whose
\* only line terminator is "\n" writes exactly that content
C3_OpenSaveRoundTrip ==
    [][(/\ op.kind = "open" /\ result = "ok"
        /\ NewlineOnly(disk)
        /\ op'.kind = "save" /\ result' = "ok")
       => disk' = disk]_vars

\* such a save has written back a content of two lines with a final newline
C3_Witness ==
    /\ SaveWrote
    /\ op.prev = "open"
    /\ pre.rows = OpenRows(pre.disk)
    /\ NewlineOnly(pre.disk)
    /\ EndsWithNewline(pre.disk)
    /\ LineCount(pre.disk) = 2
    /\ disk = pre.disk

\* the index in the written content at which row i (from 1) starts, less one
RowOffset(rs, i) == Len(Concat([j \in 1..(i - 1) |-> rs[j].string])) + (i - 1)

\* C4: a save that wrote the file wrote each row's text at its place in row
\* order, one "\n" after every row but the last and nothing after the last;
\* no rows write the empty content
C4_SaveJoinsRows ==
    SaveWrote =>
        /\ \A i \in 1..Len(rows) :
              /\ SubSeq(disk, RowOffset(rows, i) + 1,
                        RowOffset(rows, i) + Len(rows[i].string)) = rows[i].string
              /\ i < Len(rows) =>
                    /\ RowOffset(rows, i) + Len(rows[i].string) + 1 <= Len(disk)
                    /\ disk[RowOffset(rows, i) + Len(rows[i].string) + 1] = "\n"
        /\ Len(disk) = IF rows = <<>> THEN 0
                       ELSE RowOffset(rows, Len(rows)) + Len(rows[Len(rows)].string)

\* a save has written three rows, the last of them not empty
C4_Witness ==
    /\ SaveWrote
    /\ Len(rows) = 3
    /\ rows[3].string # <<>>
    /\ Len(disk) = DocScalars(rows) + 2

\* C5: after a successful open the rows are the content's lines in file
\* order, followed by one empty row exactly when the content ends with a line
\* terminator, and dirty is false
C5_OpenRowsPerLine ==
    (op.kind = "open" /\ result = "ok") =>
        /\ ~dirty
        /\ Len(rows) = LineCount(disk) + (IF EndsWithNewline(disk) THEN 1 ELSE 0)
        /\ \A k \in 1..LineCount(disk) :
              k <= Len(rows) /\ rows[k].string = LineOf(disk, k)
        /\ EndsWithNewline(disk) => rows[Len(rows)].string = <<>>

\* a content of three lines that ends with a newline has been opened as four
\* rows
C5_Witness ==
    /\ op.kind = "open"
    /\ result = "ok"
    /\ LineCount(disk) = 3
    /\ EndsWithNewline(disk)
    /\ Len(rows) = 4

(***************************************************************************)
(* The claims about Row, under SpecRow                                     *)
(***************************************************************************)
\* C6: the cached length of the row, and of the row a split returned, is the
\* number of grapheme clusters its text segments into
C6_LenIsGraphemeCount ==
    /\ row.len = Count(row.string)
    /\ tail # <<>> => tail[1].len = Count(tail[1].string)

\* the cached length of r is the number of its grapheme clusters
Recounted(r) == r.len = Count(r.string)

\* c put before the grapheme with index at (or at the end) forms a grapheme
\* of its own and leaves the other graphemes of s as they are
NonCombining(s, at, c) ==
    LET g == Graphemes(s)
        k == Min(at, Len(g))
    IN  Graphemes(Concat(SubSeq(g, 1, k)) \o <<c>> \o Concat(SubSeq(g, k + 1, Len(g))))
            = SubSeq(g, 1, k) \o <<(<<c>>)>> \o SubSeq(g, k + 1, Len(g))

\* C7: insert(i, c) with i in 0..len and c non-combining, followed by
\* delete(i), leaves the text and the length the row had before the insert
C7_InsertThenDelete ==
    [][(/\ op.kind = "insert"
        /\ op.x <= pre.row.len
        /\ NonCombining(pre.row.string, op.x, op.c)
        /\ op'.kind = "delete"
        /\ op'.x = op.x)
       => (row'.string = pre.row.string /\ row'.len = pre.row.len)]_vars

\* C7 on the rows whose cached length is their grapheme count
C7_OnRecountedRows ==
    [][(/\ op.kind = "insert"
        /\ op.x <= pre.row.len
        /\ Recounted(pre.row)
        /\ NonCombining(pre.row.string, op.x, op.c)
        /\ op'.kind = "delete"
        /\ op'.x = op.x)
       => (row'.string = pre.row.string /\ row'.len = pre.row.len)]_vars

\* C8: split(at) with at in 0..len leaves the graphemes before at in the row
\* and returns the graphemes from at on, and an append of the returned row
\* right after gives back the text and the length the row had
C8_SplitThenAppend ==
    [][/\ (op'.kind = "split" /\ op'.x <= row.len) =>
              LET g == Graphemes(row.string)
                  k == Min(op'.x, Len(g))
              IN  /\ result' = "ok"
                  /\ Graphemes(row'.string) = SubSeq(g, 1, k)
                  /\ Graphemes(tail'[1].string) = SubSeq(g, k + 1, Len(g))
       /\ (op.kind = "split" /\ op.x <= pre.row.len /\ op'.kind = "append") =>
              /\ row'.string = pre.row.string
              /\ row'.len = pre.row.len]_vars

\* a row has been split in two non-empty rows and joined again
C8_Witness ==
    /\ op.kind = "append"
    /\ op.prev = "split"
    /\ pre.row.string # <<>>
    /\ pre.tail # <<>>
    /\ pre.tail[1].string # <<>>
    /\ row.string = pre.row.string \o pre.tail[1].string
    /\ row.len = pre.row.len + pre.tail[1].len

(***************************************************************************)
(* The claims about Document::insert and Document::delete, under Spec      *)
(***************************************************************************)
\* the last operation was a delete at the end of a row that had a row after it
DeletedAtEndOfRow ==
    /\ op.kind = "delete"
    /\ op.y + 2 <= Len(pre.rows)
    /\ op.x = pre.rows[op.y + 1].len

\* C9: a delete at (r, len(r)) with a row r+1 present puts the text of row
\* r+1 after the text of row r, makes the length of row r the sum of the two
\* lengths, takes one row away and leaves every other row as it was
C9_DeleteMergesRows ==
    DeletedAtEndOfRow =>
        LET r == op.y + 1
        IN  /\ result = "ok"
            /\ Len(rows) = Len(pre.rows) - 1
            /\ rows[r].string = pre.rows[r].string \o pre.rows[r + 1].string
            /\ rows[r].len = pre.rows[r].len + pre.rows[r + 1].len
            /\ \A i \in 1..(r - 1) :
                  rows[i].string = pre.rows[i].string /\ rows[i].len = pre.rows[i].len
            /\ \A i \in (r + 1)..Len(rows) :
                  /\ rows[i].string = pre.rows[i + 1].string
                  /\ rows[i].len = pre.rows[i + 1].len

\* the first two of three non-empty rows have been merged
C9_Witness ==
    /\ DeletedAtEndOfRow
    /\ op.y = 0
    /\ Len(pre.rows) = 3
    /\ \A i \in 1..3 : pre.rows[i].string # <<>>
    /\ Len(rows) = 2
    /\ rows[2].string = pre.rows[3].string

\* C10: a line break inserted into the document with no rows, whatever the
\* position, leaves exactly two rows, both empty
C10_NewlineOnEmptyDocument ==
    (op.kind = "insert" /\ op.c = "\n" /\ pre.rows = <<>>) =>
        /\ result = "ok"
        /\ Len(rows) = 2
        /\ \A i \in 1..Len(rows) : rows[i].string = <<>> /\ rows[i].len = 0

\* a line break has been inserted at row 1, column 1 of the empty document
C10_Witness ==
    /\ op.kind = "insert"
    /\ op.c = "\n"
    /\ op.y = 1
    /\ op.x = 1
    /\ pre.rows = <<>>
    /\ Len(rows) = 2

\* C11: after a Document::insert the document has at least one row, and no
\* Document::insert or Document::delete leaves a document that had a row
\* without any
C11_RowCountStaysPositive ==
    [][/\ op'.kind = "insert" => Len(rows') >= 1
       /\ Len(rows) >= 1 => Len(rows') >= 1]_vars

\* a delete has joined the two rows of a document into its only row
C11_Witness ==
    /\ op.kind = "delete"
    /\ result = "ok"
    /\ Len(pre.rows) = 2
    /\ Len(rows) = 1

\* C12: no Document::insert and no Document::delete panics, whatever the
\* position and the document
C12_EditsNeverPanic == result # "panic"

(***************************************************************************)
(* The claims about block comments and the highlight skip, under SpecHl    *)
(***************************************************************************)
\* the least index p >= from (from 0) at which "*/" starts in g, or -1
CloseFrom(g, from) ==
    LET ps == {p \in from..(Len(g) - 2) : g[p + 1] = <<"*">> /\ g[p + 2] = <<"/">>}
    IN  IF ps = {} THEN -1 ELSE CHOOSE p \in ps : \A q \in ps : p <= q

\* the two-state machine over one row of "/", "*" and letters: the state at
\* the end of the row when the scan is at index i in state inside.  "//"
\* comments out the rest of the row, "/*" enters, the first "*/" after it
\* leaves
RECURSIVE InsideAtEnd(_, _, _)
InsideAtEnd(g, i, inside) ==
    IF i >= Len(g) THEN inside
    ELSE IF inside
         THEN IF CloseFrom(g, i) < 0 THEN TRUE
              ELSE InsideAtEnd(g, CloseFrom(g, i) + 2, FALSE)
         ELSE IF i + 1 < Len(g) /\ g[i + 1] = <<"/">> /\ g[i + 2] = <<"/">> THEN FALSE
         ELSE IF i + 1 < Len(g) /\ g[i + 1] = <<"/">> /\ g[i + 2] = <<"*">>
              THEN InsideAtEnd(g, i + 2, TRUE)
              ELSE InsideAtEnd(g, i + 1, FALSE)

\* the state in which row i (from 1) of the texts starts
RECURSIVE StartsInside(_, _)
StartsInside(texts, i) ==
    IF i = 1 THEN FALSE
    ELSE InsideAtEnd(Graphemes(texts[i - 1]), 0, StartsInside(texts, i - 1))

\* the number of graphemes a row that starts inside a block comment has up
\* to and including the closing "*/", or to its end
CommentPrefix(g) == IF CloseFrom(g, 0) < 0 THEN Len(g) ELSE CloseFrom(g, 0) + 2

\* the marks of a row with this text that is highlighted on its own
MarksAlone(text, type) ==
    HighlightLoop(RowFrom(text), Graphemes(text), HighlightingOptions(type),
                  [index |-> 0, hl |-> <<>>, swc |-> FALSE]).hl

\* C13: with block comments enabled, after an edit followed by
\* highlight(None, None), every row that starts inside a block comment is
\* marked as block comment up to and including the closing "*/" (to its end
\* when there is none), and every row that starts clear has the marks of the
\* row highlighted on its own
C13_BlockCommentCarried ==
    (op.kind = "highlight" /\ op.prev \in {"insert", "delete"} /\ file_type = "Rust") =>
        \A i \in 1..Len(rows) :
            IF StartsInside(Texts(rows), i)
            THEN \A k \in 1..CommentPrefix(Graphemes(rows[i].string)) :
                     /\ k <= Len(rows[i].highlighting)
                     /\ rows[i].highlighting[k] = "MultilineComment"
            ELSE rows[i].highlighting = MarksAlone(rows[i].string, file_type)

\* the rows that a highlight which recomputes every row would leave
Recomputed(rs, type) ==
    DocHighlight([i \in 1..Len(rs) |-> [rs[i] EXCEPT !.is_highlighted = FALSE]],
                 type, <<>>, <<>>, TRUE).rows

\* C14: after highlight(None, None) every row has the marks that a highlight
\* recomputing every row from row 0, starting clear, gives it
C14_SkipIsOnlyAShortcut ==
    op.kind = "highlight" =>
        \A i \in 1..Len(rows) :
            rows[i].highlighting = Recomputed(rows, file_type)[i].highlighting

\* C20: render(0, len) of a row whose highlighted flag is false switches to
\* no colour but that of None
C20_UnhighlightedRendersPlain ==
    \A i \in 1..Len(rows) :
        ~rows[i].is_highlighted =>
            \A k \in 1..Len(Render(rows[i], 0, rows[i].len)) :
                Render(rows[i], 0, rows[i].len)[k].kind = "color"
                    => Render(rows[i], 0, rows[i].len)[k].v = "None"

(***************************************************************************)
(* SpecKw: Row::highlight applied once to a row of a Rust file              *)
(***************************************************************************)
\* graphemes of the row
MaxKwLen == 5

\* the letters of for, if and i8, a digit, and two separators
KwAlphabet == {"f", "o", "r", "i", "8", " ", "."}

KwHighlight ==
    /\ ~row.is_highlighted
    /\ row' = RowHighlight(row, HighlightingOptions("Rust"), <<>>, FALSE, TRUE).row
    /\ Step("highlight")
    /\ UNCHANGED <<tail, docVars, result, saved, callVars, editorVars>>

InitKw ==
    /\ row \in {RowFrom(s) : s \in Strs(KwAlphabet, MaxKwLen)}
    /\ tail = <<>>
    /\ DefaultDocument
    /\ disk = <<>>
    /\ result = "ok"
    /\ saved = <<>>
    /\ pre = NoPre
    /\ op = NoOp
    /\ NoCalls
    /\ EditorDefault

NextKw == KwHighlight

SpecKw == InitKw /\ [][NextKw]_vars

(***************************************************************************)
(* The claim about keywords, under SpecKw                                  *)
(***************************************************************************)
\* the keyword occurs in g from index p (from 0) on
OccursAt(g, p, keyword) ==
    \A i \in 1..Len(keyword) : p + i <= Len(g) /\ g[p + i] = <<keyword[i]>>

\* the occurrence of n graphemes at p is marked with the category: its
\* graphemes carry it and the marks next to it, if any, do not
MarkedAs(hl, p, n, category) ==
    /\ p + n <= Len(hl)
    /\ \A i \in 1..n : hl[p + i] = category
    /\ p > 0 => hl[p] # category
    /\ p + n < Len(hl) => hl[p + n + 1] # category

\* the graphemes before and after the occurrence, if any, are separators
WholeWord(g, p, n) ==
    /\ p > 0 => IsSeparator(g[p])
    /\ p + n < Len(g) => IsSeparator(g[p + n + 1])

\* whole-word matching of every keyword of the list in a highlighted row
WholeWords(r, keywords, category) ==
    LET g == Graphemes(r.string)
    IN  \A k \in 1..Len(keywords) : \A p \in 0..Len(g) :
            OccursAt(g, p, keywords[k]) =>
                (MarkedAs(r.highlighting, p, Len(keywords[k]), category)
                     <=> WholeWord(g, p, Len(keywords[k])))

\* C15: in a highlighted row without comments, strings and character
\* literals, an occurrence of a primary (secondary) keyword is marked
\* PrimaryKeywords (SecondaryKeywords) exactly when the grapheme before it, if
\* any, and the grapheme after it, if any, are separators
C15_KeywordsAreWholeWords ==
    op.kind = "highlight" =>
        /\ WholeWords(row, PrimaryKeywords, "PrimaryKeywords")
        /\ WholeWords(row, SecondaryKeywords, "SecondaryKeywords")

\* "for i" is highlighted: for is marked, and it is followed by a separator
C15_Witness ==
    /\ op.kind = "highlight"
    /\ row.string = <<"f", "o", "r", " ", "i">>
    /\ row.highlighting =
           <<"PrimaryKeywords", "PrimaryKeywords", "PrimaryKeywords", "None", "None">>

(***************************************************************************)
(* SpecFind: one Document::find on a document opened from a file           *)
(***************************************************************************)
\* rows of the document
MaxFindRows == 2
\* scalars of the document, all rows together
MaxFindChars == 5
\* scalars of a query
MaxQuery == 2

\* a letter and a regional indicator: two indicators in a row make one
\* grapheme
FindAlphabet == {"a", "R"}

Queries == Strs(FindAlphabet, MaxQuery)

\* the documents of rows made by Row::from
FindDocs ==
    {rs \in UNION {[1..k -> {RowFrom(s) : s \in Strs(FindAlphabet, MaxFindChars)}] :
                       k \in 0..MaxFindRows} :
        DocScalars(rs) <= MaxFindChars}

\* Document::find(query, &Position {x, y}, direction), the first find on the
\* document
Find(query, y, x, forward, overflow_checks) ==
    /\ ~panicked
    /\ op.kind = "none"
    /\ found' = DocFind(rows, query, y, x, forward, overflow_checks)
    /\ result' = IF found'.tag = "panic" THEN "panic" ELSE "returned"
    /\ op' = Op(IF forward THEN "forward" ELSE "backward", y, x, query)
    /\ UNCHANGED <<docVars, rowVars, saved, pre, rendered, carried, editorVars>>

FindForward ==
    \E query \in Queries, y \in 0..Len(rows), overflow_checks \in BOOLEAN :
        \E x \in 0..(RowLen(rows, y) + 1) :
            Find(query, y, x, TRUE, overflow_checks)

\* the row of the position is one of the document
FindBackward ==
    \E query \in Queries, y \in 0..(Len(rows) - 1), overflow_checks \in BOOLEAN :
        \E x \in 0..(RowLen(rows, y) + 1) :
            Find(query, y, x, FALSE, overflow_checks)

InitFind ==
    /\ rows \in FindDocs
    /\ file_name = <<>>
    /\ dirty = FALSE
    /\ file_type = "No filetype"
    /\ disk = <<>>
    /\ result = "ok"
    /\ saved = <<>>
    /\ pre = NoPre
    /\ op = NoOp
    /\ NoCalls
    /\ EditorDefault
    /\ row = RowDefault
    /\ tail = <<>>

NextFind ==
    \/ FindForward
    \/ FindBackward

SpecFind == InitFind /\ [][NextFind]_vars

(***************************************************************************)
(* The claims about Document::find, under SpecFind                         *)
(***************************************************************************)
\* the scalars before the grapheme with index col
ScalarsBefore(g, col) == Len(Concat(SubSeq(g, 1, Min(col, Len(g)))))

\* the query occurs in the text at the grapheme with index col
OccursAtCol(text, query, col) ==
    LET before == ScalarsBefore(Graphemes(text), col)
    IN  /\ col < Count(text)
        /\ before + Len(query) <= Len(text)
        /\ SubSeq(text, before + 1, before + Len(query)) = query

\* the positions <<row, col>> at which the query occurs inside a single row
Occurrences(rs, query) ==
    {pos \in (0..(Len(rs) - 1)) \X (0..MaxFindChars) :
        query # <<>> /\ OccursAtCol(rs[pos[1] + 1].string, query, pos[2])}

\* document order
Before(p, q) == p[1] < q[1] \/ (p[1] = q[1] /\ p[2] <= q[2])

\* Some of the first (last) position of the set, None of an empty set
SomeFirst(S) ==
    IF S = {} THEN None
    ELSE LET pos == CHOOSE p \in S : \A q \in S : Before(p, q) IN Some(pos[1], pos[2])
SomeLast(S) ==
    IF S = {} THEN None
    ELSE LET pos == CHOOSE p \in S : \A q \in S : Before(q, p) IN Some(pos[1], pos[2])

\* C16: a forward find returns the first position at or after the start at
\* which the query occurs inside a single row, None when there is none, and
\* None for an empty query
C16_ForwardFindsFirst ==
    op.kind = "forward" =>
        found = SomeFirst({pos \in Occurrences(rows, op.c) : Before(<<op.y, op.x>>, pos)})

\* the occurrence of the query at pos ends before the grapheme with index x
EndsBefore(rs, query, pos, x) ==
    LET g == Graphemes(rs[pos[1] + 1].string)
    IN  ScalarsBefore(g, pos[2]) + Len(query) <= ScalarsBefore(g, x)

\* C17: a backward find from a position in the document returns the last
\* occurrence of the query among those that lie within the columns before
\* the start in its row and those of the rows before it, None when there
\* is none
C17_BackwardFindsLast ==
    op.kind = "backward" =>
        found = SomeLast({pos \in Occurrences(rows, op.c) :
                             \/ pos[1] < op.y
                             \/ pos[1] = op.y /\ EndsBefore(rows, op.c, pos, op.x)})

(***************************************************************************)
(* SpecRowFind: one Row::find forward, then one backward from the match    *)
(***************************************************************************)
\* scalars of the row
MaxFindLen == 4

\* a letter, a regional indicator and a combining mark
RowFindAlphabet == {"a", "R", "m"}

RowQueries == Strs(RowFindAlphabet, MaxQuery)

\* row.find(query, at, SearchDirection::Forward)
RFindForward ==
    \E query \in RowQueries, at \in 0..(row.len + 1), overflow_checks \in BOOLEAN :
        /\ ~panicked
        /\ op.kind = "none"
        /\ found' = RowFind(row, query, at, TRUE, overflow_checks)
        /\ result' = IF found'.tag = "panic" THEN "panic" ELSE "returned"
        /\ op' = Op("forward", 0, at, query)
        /\ UNCHANGED <<rowVars, docVars, saved, pre, rendered, carried, editorVars>>

\* row.find(query, m, SearchDirection::Backward) with the same query and the
\* match m that the forward find returned
RFindBack ==
    /\ ~panicked
    /\ op.kind = "forward"
    /\ found.tag = "Some"
    /\ found' = RowFind(row, op.c, found.x, FALSE, TRUE)
    /\ result' = "returned"
    /\ op' = Op("back", 0, found.x, op.c)
    /\ UNCHANGED <<rowVars, docVars, saved, pre, rendered, carried, editorVars>>

InitRowFind ==
    /\ row \in {RowFrom(s) : s \in Strs(RowFindAlphabet, MaxFindLen)}
    /\ tail = <<>>
    /\ DefaultDocument
    /\ disk = <<>>
    /\ result = "ok"
    /\ saved = <<>>
    /\ pre = NoPre
    /\ op = NoOp
    /\ NoCalls
    /\ EditorDefault

NextRowFind ==
    \/ RFindForward
    \/ RFindBack

SpecRowFind == InitRowFind /\ [][NextRowFind]_vars

(***************************************************************************)
(* The claim about Row::find, under SpecRowFind                            *)
(***************************************************************************)
\* C18 as stated: the backward find from the match m of a forward find
\* returns a position at or before m at which the query occurs, and not None
C18_BackFindsSome ==
    op.kind = "back" =>
        /\ found.tag = "Some"
        /\ found.x <= op.x
        /\ OccursAtCol(row.string, op.c, found.x)

\* C18: the backward find from the match m of a forward find returns None or
\* a position before m at which the query occurs
C18_BackFindsEarlier ==
    op.kind = "back" =>
        \/ found = None
        \/ /\ found.tag = "Some"
           /\ found.x < op.x
           /\ OccursAtCol(row.string, op.c, found.x)

\* "aa" with the query "a": forward from 1 matches at 1, backward from there
\* matches at 0
C18_Witness ==
    /\ op.kind = "back"
    /\ row.string = <<"a", "a">>
    /\ op.c = <<"a">>
    /\ op.x = 1
    /\ found = Some(0, 0)

(***************************************************************************)
(* SpecHint: Document::highlight with a word and a hint, twice, on a       *)
(* document opened from a Rust file                                        *)
(***************************************************************************)
\* rows of the document
MaxHintRows == 2
\* scalars of the document, all rows together
MaxHintChars == 2

\* None, Some("") and Some("a")
Words == {<<>>, <<(<<>>)>>, <<(<<"a">>)>>}

\* None and Some(u), up to a hint past the last row
Hints == {<<>>} \cup {<<u>> : u \in 0..MaxHintRows}

\* the documents of rows made by Row::from, none of them highlighted
HintDocs ==
    {rs \in UNION {[1..k -> {RowFrom(s) : s \in Strs(HlAlphabet, MaxHintChars)}] :
                       k \in 0..MaxHintRows} :
        DocScalars(rs) <= MaxHintChars}

\* document.highlight(&word, until), the first or the second one on the
\* document; op.c is the word and op.y the hint
HintHighlight ==
    \E word \in Words, until \in Hints, overflow_checks \in BOOLEAN :
        /\ op.prev = "none"
        /\ Highlight(word, until, overflow_checks)
        /\ Hist("highlight", until, 0, word)
        /\ UNCHANGED <<saved, rowVars, callVars, editorVars>>

InitHint ==
    /\ rows \in HintDocs
    /\ file_name = <<(<<"f", ".", "r", "s">>)>>
    /\ dirty = FALSE
    /\ file_type = "Rust"
    /\ disk = <<>>
    /\ result = "ok"
    /\ saved = <<>>
    /\ pre = NoPre
    /\ op = NoOp
    /\ NoCalls
    /\ EditorDefault
    /\ row = RowDefault
    /\ tail = <<>>

NextHint == HintHighlight

SpecHint == InitHint /\ [][NextHint]_vars

(***************************************************************************)
(* The claim about the hint of Document::highlight, under SpecHint         *)
(***************************************************************************)
\* the marks of row i (from 1) computed with the state carried from row 0,
\* the matches of the word laid over them
CarriedMarks(rs, i, word) ==
    LET g == Graphemes(rs[i].string)
        tokens == HighlightLoop(rs[i], g, HighlightingOptions("Rust"),
                                [index |-> 0, hl |-> <<>>,
                                 swc |-> StartsInside(Texts(rs), i)]).hl
    IN  HighlightMatch(rs[i], tokens, word, TRUE).hl

MaxRenderLen == 3
RenderAlphabet == {"a", "m", "R", "\t", "8"}

\* row.highlight(&opts, &None, false) of a Rust file
RenderHighlight ==
    /\ op.kind = "none"
    /\ ~row.is_highlighted
    /\ row' = RowHighlight(row, HighlightingOptions("Rust"), <<>>, FALSE, TRUE).row
    /\ UNCHANGED <<tail, docVars, result, saved, pre, op, callVars, editorVars>>

\* row.render(start, end); op.y is start and op.x is end
RenderRow ==
    \E start \in 0..(row.len + 1), end \in 0..(row.len + 1) :
        /\ op.kind = "none"
        /\ rendered' = Render(row, start, end)
        /\ op' = Op("render", start, end, <<>>)
        /\ UNCHANGED <<rowVars, docVars, result, saved, pre, found, carried, editorVars>>

InitRender ==
    /\ row \in {RowFrom(s) : s \in Strs(RenderAlphabet, MaxRenderLen)}
    /\ tail = <<>>
    /\ DefaultDocument
    /\ disk = <<>>
    /\ result = "ok"
    /\ saved = <<>>
    /\ pre = NoPre
    /\ op = NoOp
    /\ NoCalls
    /\ EditorDefault

NextRender ==
    \/ RenderHighlight
    \/ RenderRow

SpecRender == InitRender /\ [][NextRender]_vars

\* the text of a rendering: what is left of it without its colour and reset
\* sequences
RECURSIVE TextOf(_)
TextOf(out) ==
    IF out = <<>> THEN <<>>
    ELSE (IF Head(out).kind = "char" THEN <<Head(out).v>> ELSE <<>>) \o TextOf(Tail(out))

\* a text with every tab replaced by one space
Untabbed(s) == [i \in 1..Len(s) |-> IF s[i] = "\t" THEN " " ELSE s[i]]

\* the graphemes of r with indices in [from, to), each in full
Window(r, from, to) ==
    Untabbed(Concat(SubSeq(Graphemes(r.string), from + 1, to)))

\* C21: without its colour sequences, render(start, end) is the graphemes
\* with indices in [min(start, len), min(end, len)), each with all of its code
\* points and every tab as one space; start >= end or start >= len gives no
\* text
C21_RenderIsTheWindow ==
    op.kind = "render" =>
        /\ TextOf(rendered) = Window(row, Min(op.y, row.len), Min(op.x, row.len))
        /\ (op.y >= op.x \/ op.y >= row.len) => TextOf(rendered) = <<>>

\* ---------------------------------------------------------------------------
\* FileType::from on its own: a document is opened under each short name
\* ---------------------------------------------------------------------------

MaxNameLen == 4
TypeAlphabet == {"r", "s", "R", "S", ".", "f"}
TypeNames == Strs(TypeAlphabet, MaxNameLen) \ {<<>>}

\* Document::open(name) of an empty file; op.c is the name
TypeOpen ==
    \E name \in TypeNames :
        /\ op.kind = "none"
        /\ Open(name)
        /\ Hist("open", 0, 0, name)
        /\ UNCHANGED <<saved, rowVars, callVars, editorVars>>

InitType ==
    /\ DefaultDocument
    /\ disk = <<>>
    /\ result = "ok"
    /\ saved = <<>>
    /\ pre = NoPre
    /\ op = NoOp
    /\ NoCalls
    /\ EditorDefault
    /\ row = RowDefault
    /\ tail = <<>>

NextType == TypeOpen

SpecType == InitType /\ [][NextType]_vars

\* the name holds a '.' and the text after its last '.' is ext, ASCII case
\* ignored
HasExtension(name, ext) ==
    /\ \E i \in 1..Len(name) : name[i] = "."
    /\ [i \in 1..Len(LastSegment(name)) |-> Lower(LastSegment(name)[i])] = ext

\* the profile that highlights nothing
NothingEnabled(opts) ==
    /\ ~opts.numbers /\ ~opts.strings /\ ~opts.characters
    /\ ~opts.comments /\ ~opts.multiline_comments
    /\ opts.primary_keywords = <<>> /\ opts.secondary_keywords = <<>>

\* C22: the file type is Rust exactly when the name has the extension "rs"
\* (the text after its last '.', ASCII case ignored); a name with another
\* extension or with no '.' gets the default profile, which enables nothing
C22_RustOnlyByExtension ==
    op.kind = "open" =>
        /\ file_type = "Rust" <=> HasExtension(op.c, <<"r", "s">>)
        /\ ~HasExtension(op.c, <<"r", "s">>)
               => NothingEnabled(HighlightingOptions(file_type))

\* ---------------------------------------------------------------------------
\* Row::highlight on its own: a row is built from a text and highlighted
\* under a file type's options, a search word and a carried-in state, then
\* highlighted once more without a word
\* ---------------------------------------------------------------------------

MaxTokLen == 5
TokAlphabet == {"\"", "\\", "a", "/", "*", "R"}

\* the search words: None, Some(""), and words of letters and flags
TokWords ==
    {<<>>, <<(<<>>)>>, <<(<<"a">>)>>, <<(<<"a", "a">>)>>, <<(<<"R", "a">>)>>}

\* op.y of a highlight: 1 when start_with_comment was true
CarriedIn == op.y = 1

\* what Row::highlight left and returned
TokReturned(h) ==
    /\ row' = h.row
    /\ carried' = h.swc
    /\ result' = IF h.panic THEN "panic" ELSE "returned"

\* row.highlight(opts, word, start_with_comment) of a row not yet highlighted
TokHighlight ==
    \E word \in TokWords, start_with_comment \in BOOLEAN, overflow_checks \in BOOLEAN :
        /\ ~panicked
        /\ op.kind = "none"
        /\ TokReturned(RowHighlight(row, HighlightingOptions(file_type), word,
                                    start_with_comment, overflow_checks))
        /\ op' = Op("highlight", IF start_with_comment THEN 1 ELSE 0, 0, word)
        /\ UNCHANGED <<tail, docVars, saved, pre, found, rendered, editorVars>>

\* row.highlight(opts, &None, start_with_comment) next, the row before it
\* having carried in what it did the first time
TokAgain ==
    /\ ~panicked
    /\ op.kind = "highlight"
    /\ TokReturned(RowHighlight(row, HighlightingOptions(file_type), <<>>,
                                CarriedIn, TRUE))
    /\ op' = Op("again", op.y, 0, <<>>)
    /\ UNCHANGED <<tail, docVars, saved, pre, found, rendered, editorVars>>

InitTok ==
    /\ row \in {RowFrom(s) : s \in Strs(TokAlphabet, MaxTokLen)}
    /\ tail = <<>>
    /\ rows = <<>>
    /\ file_name = <<>>
    /\ dirty = FALSE
    /\ file_type \in {"Rust", "No filetype"}
    /\ disk = <<>>
    /\ result = "ok"
    /\ saved = <<>>
    /\ pre = NoPre
    /\ op = NoOp
    /\ NoCalls
    /\ EditorDefault

NextTok ==
    \/ TokHighlight
    \/ TokAgain

SpecTok == InitTok /\ [][NextTok]_vars

\* C23: after Row::highlight has recomputed a row there are as many marks as
\* the row has graphemes
C23_OneMarkPerGrapheme ==
    (op.kind = "highlight" /\ ~panicked) => Len(row.highlighting) = row.len

\* what a full recompute of r returns under the options of `type` and the
\* carried-in state start_with_comment
RecomputeCarries(r, type, start_with_comment) ==
    HighlightLoop(r, Graphemes(r.string), HighlightingOptions(type),
                  [index |-> 0, hl |-> <<>>, swc |-> start_with_comment]).swc

\* C24: on the skip path (the row is highlighted, there is no word) the
\* value Row::highlight returns is the one a recompute of the row under the
\* same carried-in state returns
C24_SkipCarriesWhatRecomputeDoes ==
    (op.kind = "again" /\ op.prev = "highlight" /\ Skips(row, <<>>))
        => carried = RecomputeCarries(row, file_type, CarriedIn)

\* the grapheme indices that the occurrences of w in text cover, scanning
\* from the grapheme `from` rightwards, each search starting where the
\* match before it ended
RECURSIVE CoveredFrom(_, _, _)
CoveredFrom(text, w, from) ==
    LET at == {col \in from..(Count(text) - 1) : OccursAtCol(text, w, col)}
        first == CHOOSE col \in at : \A other \in at : col <= other
    IN  IF at = {} THEN {}
        ELSE (first..(first + Count(w) - 1)) \cup CoveredFrom(text, w, first + Count(w))

\* the grapheme indices a row has marked Match
MatchMarked(r) == {i \in 0..(Len(r.highlighting) - 1) : r.highlighting[i + 1] = "Match"}

\* C26: after Row::highlight with a word the graphemes marked Match are those
\* that the non-overlapping occurrences of the word cover, found left to
\* right; with no word or an empty one nothing is marked Match
C26_MatchMarksAreTheOccurrences ==
    (op.kind = "highlight" /\ ~panicked) =>
        MatchMarked(row) =
            IF op.c = <<>> \/ op.c[1] = <<>> THEN {}
            ELSE CoveredFrom(row.string, op.c[1], 0)

\* C27: a forward Row::find returns for every start index, with no
\* arithmetic underflow in end - start, and returns None when the start index
\* is beyond the row's length
C27_FindIsTotal ==
    op.kind = "forward" =>
        /\ found.tag # "panic"
        /\ op.x > row.len => found = None

\* the flat text of a document: its row texts joined with "\n"
RECURSIVE Flat(_)
Flat(rs) ==
    IF rs = <<>> THEN <<>>
    ELSE IF Len(rs) = 1 THEN rs[1].string
    ELSE rs[1].string \o <<"\n">> \o Flat(Tail(rs))

\* the offset in the flat text of the grapheme x of the row y
FlatOffset(rs, y, x) ==
    Len(Flat(SubSeq(rs, 1, y))) + (IF y > 0 THEN 1 ELSE 0)
        + ScalarsBefore(Graphemes(rs[y + 1].string), x)

\* the position is one of a row of the document, up to the end of the row
InRange(rs, y, x) == y < Len(rs) /\ x <= Count(rs[y + 1].string)

\* the scalars of the character at the position: a grapheme of the row, the
\* newline after the row, nothing at the end of the last row
CharLen(rs, y, x) ==
    IF x < Count(rs[y + 1].string) THEN Len(Graphemes(rs[y + 1].string)[x + 1])
    ELSE IF y + 1 < Len(rs) THEN 1
    ELSE 0

\* C28: on the flat text, an insert at a position of the document puts
\* exactly the character at the position's offset, and a delete removes
\* exactly the character at that offset (nothing at the end of the last row)
C28_EditsTheFlatText ==
    /\ (op.kind = "insert" /\ result = "ok" /\ InRange(pre.rows, op.y, op.x)) =>
           Flat(rows) =
               SubSeq(Flat(pre.rows), 1, FlatOffset(pre.rows, op.y, op.x))
                   \o <<op.c>>
                   \o SubSeq(Flat(pre.rows), FlatOffset(pre.rows, op.y, op.x) + 1,
                             Len(Flat(pre.rows)))
    /\ (op.kind = "delete" /\ result # "panic" /\ InRange(pre.rows, op.y, op.x)) =>
           Flat(rows) =
               SubSeq(Flat(pre.rows), 1, FlatOffset(pre.rows, op.y, op.x))
                   \o SubSeq(Flat(pre.rows),
                             FlatOffset(pre.rows, op.y, op.x)
                                 + CharLen(pre.rows, op.y, op.x) + 1,
                             Len(Flat(pre.rows)))

\* ---------------------------------------------------------------------------
\* Edits of a highlighted document, with the position of each edit and the
\* rows it started from on record
\* ---------------------------------------------------------------------------

MaxFrameRows == 3
MaxFrameChars == 2
FrameAlphabet == {"8"}

FrameBound == Len(rows') <= MaxFrameRows /\ DocScalars(rows') <= MaxFrameChars

FrameInsert ==
    \E y \in Ys : \E x \in Xs(y) :
        \E c \in FrameAlphabet \cup {"\n"} :
            /\ Insert(y, x, c) /\ FrameBound
            /\ Hist("insert", y, x, c)
            /\ UNCHANGED <<saved, rowVars, callVars, editorVars>>

FrameDelete ==
    \E y \in Ys : \E x \in Xs(y) :
        /\ Delete(y, x) /\ FrameBound
        /\ Hist("delete", y, x, "")
        /\ UNCHANGED <<saved, rowVars, callVars, editorVars>>

FrameHighlight ==
    /\ op.kind # "highlight"
    /\ Highlight(<<>>, <<>>, TRUE)
    /\ Hist("highlight", 0, 0, "")
    /\ UNCHANGED <<saved, rowVars, callVars, editorVars>>

NextFrame ==
    \/ FrameInsert
    \/ FrameDelete
    \/ FrameHighlight

SpecFrame == InitHl /\ [][NextFrame]_vars

\* C25: after an insert at row r, or a delete at row r that the guard did
\* not stop, every row from max(r - 1, 0) on has its highlighted flag false,
\* and every row before r - 1 is as it was: flag, marks and text
C25_EditUnhighlightsFromRowAbove ==
    (op.kind \in {"insert", "delete"} /\ result = "ok") =>
        /\ \A i \in 1..Len(rows) :
               i - 1 >= Max(op.y - 1, 0) => ~rows[i].is_highlighted
        /\ \A i \in 1..Len(pre.rows) :
               i - 1 < op.y - 1 => i <= Len(rows) /\ rows[i] = pre.rows[i]

C25_Witness ==
    /\ op.kind = "insert"
    /\ result = "ok"
    /\ op.y = 2
    /\ Len(pre.rows) = 3
    /\ pre.rows[1].is_highlighted /\ pre.rows[2].is_highlighted
    /\ rows[1].is_highlighted /\ ~rows[2].is_highlighted /\ ~rows[3].is_highlighted

\* ---------------------------------------------------------------------------
\* Editor::search: every key in the prompt highlights the document with the
\* query typed so far, and the end of the prompt highlights it with no word
\* ---------------------------------------------------------------------------

\* the queries typed into the prompt
SearchWords == {<<w>> : w \in Strs(HlAlphabet, MaxQuery) \ {<<>>}}

\* editor.document.highlight(Some(query)) in the callback of the prompt, for
\* the first or the second key; op.c is the word
SearchKey ==
    \E word \in SearchWords, overflow_checks \in BOOLEAN :
        /\ op.prev = "none"
        /\ op.kind \in {"none", "search"}
        /\ Highlight(word, <<>>, overflow_checks)
        /\ Hist("search", 0, 0, word)
        /\ UNCHANGED <<saved, rowVars, callVars, editorVars>>

\* self.document.highlight(None) once the prompt has returned
SearchEnds ==
    /\ op.kind = "search"
    /\ Highlight(<<>>, <<>>, TRUE)
    /\ Hist("highlight", 0, 0, <<>>)
    /\ UNCHANGED <<saved, rowVars, callVars, editorVars>>

NextSearch ==
    \/ SearchKey
    \/ SearchEnds

SpecSearch == InitHint /\ [][NextSearch]_vars

\* C29: after a highlight with a search word and then one with none, and no
\* edit in between, no grapheme of any row is marked Match
C29_NoMatchLeftAfterSearch ==
    (op.kind = "highlight" /\ op.prev = "search" /\ ~panicked) =>
        \A i \in 1..Len(rows) : MatchMarked(rows[i]) = {}

(***************************************************************************)
(* Editor                                                                  *)
(***************************************************************************)
\* self.terminal.size(): the columns of the terminal and its rows less the
\* two bars
TermWidth == 2
TermHeight == 2

MoveKeys == {"Up", "Down", "Left", "Right", "PageUp", "PageDown", "End", "Home"}

\* the match of Editor::move_cursor: the position the key asks for
MoveTo(rs, cur, key) ==
    LET last_line_pos == SatSub(Len(rs), 1)
        width == RowLen(rs, cur.y)
    IN  CASE key = "Up" -> [cur EXCEPT !.y = SatSub(cur.y, 1)]
          [] key = "Down" ->
                IF cur.y < last_line_pos THEN [cur EXCEPT !.y = cur.y + 1] ELSE cur
          [] key = "Left" ->
                IF cur.x > 0 THEN [cur EXCEPT !.x = SatSub(cur.x, 1)]
                ELSE IF cur.y > 0
                     THEN [x |-> RowLen(rs, cur.y - 1), y |-> cur.y - 1]
                     ELSE cur
          [] key = "Right" ->
                IF cur.x < width THEN [cur EXCEPT !.x = cur.x + 1]
                ELSE IF cur.y < last_line_pos THEN [x |-> 0, y |-> cur.y + 1]
                ELSE cur
          [] key = "PageUp" -> [cur EXCEPT !.y = SatSub(cur.y, TermHeight)]
          [] key = "PageDown" ->
                [cur EXCEPT !.y = Min(cur.y + TermHeight, last_line_pos)]
          [] key = "Home" -> [cur EXCEPT !.x = 0]
          [] key = "End" -> [cur EXCEPT !.x = width]
          [] OTHER -> cur

\* a move up or down ends no further right than the end of its row
Clamped(rs, cur, key) ==
    IF key \in {"Up", "Down", "PageDown", "PageUp"}
    THEN [cur EXCEPT !.x = Min(cur.x, RowLen(rs, cur.y))]
    ELSE cur

\* a move that leaves the column as it was on the row it came from
MoveUnclamped(rs, cur, key) == MoveTo(rs, cur, key)

\* Editor::move_cursor(key): the cursor it leaves
MoveCursor(rs, cur, key) == Clamped(rs, MoveTo(rs, cur, key), key)

\* Editor::scroll: the offset it leaves for the cursor cur
Scroll(cur, off) ==
    [y |-> IF cur.y < off.y THEN cur.y
           ELSE IF cur.y >= off.y + TermHeight THEN SatSub(cur.y, TermHeight) + 1
           ELSE off.y,
     x |-> IF cur.x < off.x THEN cur.x
           ELSE IF cur.x >= off.x + TermWidth THEN SatSub(cur.x, TermWidth) + 1
           ELSE off.x]

\* the keys read while the editor runs: not after should_quit is set, nor
\* after a panic
Running == ~should_quit /\ ~panicked

\* the end of Editor::process_keypress, the handler of the key having left
\* the cursor at cur and the status message status
Settle(cur, status) ==
    /\ cursor_position' = cur
    /\ offset' = Scroll(cur, offset)
    /\ quit_times' = IF quit_times < QUIT_TIMES THEN QUIT_TIMES ELSE quit_times
    /\ status_message' = IF quit_times < QUIT_TIMES THEN "" ELSE status

\* a Ctrl-Q that quits at once, unsaved changes or not
KeyCtrlQAtOnce ==
    /\ Running
    /\ should_quit' = TRUE
    /\ Settle(cursor_position, status_message)
    /\ result' = "ok"
    /\ UNCHANGED docVars

\* Key::Ctrl('q')
KeyCtrlQ ==
    /\ Running
    /\ IF quit_times > 0 /\ dirty
       THEN /\ status_message' = "WARNING"
            /\ quit_times' = quit_times - 1
            /\ UNCHANGED <<should_quit, cursor_position, offset>>
       ELSE /\ should_quit' = TRUE
            /\ Settle(cursor_position, status_message)
    /\ result' = "ok"
    /\ UNCHANGED docVars

\* the cursor after Key::Char(c) has been inserted into rs at cur
AfterChar(rs, cur, c) ==
    IF cur.y < Len(rs)
    THEN IF cur.x < Count(rs[cur.y + 1].string)
         THEN IF Graphemes(rs[cur.y + 1].string)[cur.x + 1] = <<c>>
              THEN MoveCursor(rs, cur, "Right")
              ELSE cur
         ELSE MoveCursor(rs, cur, "Right")
    ELSE cur

\* Key::Char(c), Enter being Key::Char('\n')
KeyChar(c) ==
    /\ Running
    /\ Insert(cursor_position.y, cursor_position.x, c)
    /\ IF result' = "panic"
       THEN UNCHANGED <<cursor_position, offset, quit_times, status_message>>
       ELSE Settle(AfterChar(rows', cursor_position, c), status_message)
    /\ UNCHANGED should_quit

\* Key::Delete
KeyDelete ==
    /\ Running
    /\ Delete(cursor_position.y, cursor_position.x)
    /\ IF result' = "panic"
       THEN UNCHANGED <<cursor_position, offset, quit_times, status_message>>
       ELSE Settle(cursor_position, status_message)
    /\ UNCHANGED should_quit

\* Key::Backspace with the cursor past the origin: the delete at cur, where
\* move_cursor(Key::Left) has put the cursor
BackspaceAt(cur) ==
    /\ Delete(cur.y, cur.x)
    /\ IF result' = "panic"
       THEN /\ cursor_position' = cur
            /\ UNCHANGED <<offset, quit_times, status_message>>
       ELSE Settle(cur, status_message)

\* Key::Backspace
KeyBackspace ==
    /\ Running
    /\ IF cursor_position.x > 0 \/ cursor_position.y > 0
       THEN BackspaceAt(MoveCursor(rows, cursor_position, "Left"))
       ELSE /\ result' = "ok"
            /\ Settle(cursor_position, status_message)
            /\ UNCHANGED docVars
    /\ UNCHANGED should_quit

\* the arrow, page, Home and End keys
KeyMove(key) ==
    /\ Running
    /\ Settle(MoveCursor(rows, cursor_position, key), status_message)
    /\ result' = "ok"
    /\ UNCHANGED <<docVars, should_quit>>

\* any other key
KeyOther ==
    /\ Running
    /\ Settle(cursor_position, status_message)
    /\ result' = "ok"
    /\ UNCHANGED <<docVars, should_quit>>

\* Document::save under the name `name`: what it leaves of the document and
\* whether it returned Ok
SavedAs(name, outcome, n) ==
    /\ file_name' = <<name>>
    /\ CASE outcome = "create_err" ->
              /\ n = 0
              /\ result' = "err"
              /\ UNCHANGED <<dirty, file_type, disk>>
         [] outcome = "write_err" ->
              /\ n < Len(SaveBytes(rows))
              /\ file_type' = FileTypeFrom(name)
              /\ disk' = SubSeq(SaveBytes(rows), 1, n)
              /\ dirty' = SaveDirty(outcome)
              /\ result' = "err"
         [] outcome = "ok" ->
              /\ n = 0
              /\ file_type' = FileTypeFrom(name)
              /\ disk' = SaveBytes(rows)
              /\ dirty' = SaveDirty(outcome)
              /\ result' = "ok"
    /\ UNCHANGED rows

\* Editor::save, new_name being what the prompt "Save as: " returned (<<>>
\* for None) had it been shown: the status message it leaves
EditorSave(name, outcome, n) ==
    IF name = <<>>
    THEN /\ outcome = "ok" /\ n = 0
         /\ result' = "ok"
         /\ UNCHANGED docVars
         /\ Settle(cursor_position, "Save aborted.")
    ELSE /\ SavedAs(name[1], outcome, n)
         /\ Settle(cursor_position,
                   IF result' = "ok" THEN "File saved successfully."
                   ELSE "Error writing file!")

\* Key::Ctrl('s'); new_name is what the prompt returns when the document has
\* no name, outcome and n what the file system does
KeyCtrlS(new_name, outcome, n) ==
    /\ Running
    /\ file_name # <<>> => new_name = <<>>
    /\ n <= Len(SaveBytes(rows))
    /\ EditorSave(IF file_name = <<>> THEN new_name ELSE file_name, outcome, n)
    /\ UNCHANGED should_quit

\* Editor::search keeps, from key to key of its prompt: the rows, the cursor,
\* the offset, the query typed so far, and whether a call has panicked
SearchFrom ==
    [rows |-> rows, cursor |-> cursor_position, offset |-> offset, query |-> <<>>,
     panic |-> FALSE]

\* the callback of the search prompt after Document::find returned f
SearchFound(s, f, moved) ==
    IF f.tag = "panic" THEN [s EXCEPT !.panic = TRUE]
    ELSE IF f.tag = "Some"
         THEN [s EXCEPT !.cursor = [x |-> f.x, y |-> f.y],
                        !.offset = Scroll([x |-> f.x, y |-> f.y], s.offset)]
         ELSE IF moved
              THEN [s EXCEPT !.cursor = MoveCursor(s.rows, s.cursor, "Left")]
              ELSE s

\* the rows as Document::highlight left them
SearchLit(s, h) == [s EXCEPT !.rows = h.rows, !.panic = h.panic]

\* editor.document.highlight(Some(query)) at the end of the callback
SearchHighlit(s, type, overflow_checks) ==
    IF s.panic THEN s
    ELSE SearchLit(s, DocHighlight(s.rows, type, <<s.query>>, <<>>, overflow_checks))

\* the callback from its Document::find on, the cursor moved right already
\* if the key asked for it
SearchLooked(s, key, type, overflow_checks) ==
    SearchHighlit(
        SearchFound(s,
                    DocFind(s.rows, s.query, s.cursor.y, s.cursor.x,
                            key \notin {"Left", "Up"}, overflow_checks),
                    key \in {"Right", "Down"}),
        type, overflow_checks)

\* the callback of the search prompt for one key
SearchCallback(s, key, type, overflow_checks) ==
    SearchLooked(IF key \in {"Right", "Down"}
                 THEN [s EXCEPT !.cursor = MoveCursor(s.rows, s.cursor, "Right")]
                 ELSE s,
                 key, type, overflow_checks)

\* the result of Editor::prompt after one more key
Typed(query, key) ==
    CASE key = "Backspace" ->
             Concat(SubSeq(Graphemes(query), 1, SatSub(Count(query), 1)))
      [] key \in MoveKeys -> query
      [] OTHER -> query \o <<key>>

\* the loop of Editor::prompt over the keys typed before Enter or Esc
RECURSIVE SearchKeys(_, _, _, _)
SearchKeys(s, keys, type, overflow_checks) ==
    IF keys = <<>> \/ s.panic THEN s
    ELSE SearchKeys(SearchCallback([s EXCEPT !.query = Typed(s.query, Head(keys))],
                                   Head(keys), type, overflow_checks),
                    Tail(keys), type, overflow_checks)

\* the end of Editor::search and of process_keypress: h is what
\* self.document.highlight(None) left
Searched(s, h) ==
    /\ rows' = h.rows
    /\ result' = IF h.panic THEN "panic" ELSE "ok"
    /\ cursor_position' = s.cursor
    /\ IF h.panic
       THEN /\ offset' = s.offset
            /\ status_message' = ""
            /\ UNCHANGED quit_times
       ELSE /\ offset' = Scroll(s.cursor, s.offset)
            /\ quit_times' = IF quit_times < QUIT_TIMES THEN QUIT_TIMES ELSE quit_times
            /\ status_message' = ""

\* Editor::search once its prompt has returned
SearchDone(s, overflow_checks) ==
    IF s.panic
    THEN /\ rows' = s.rows
         /\ result' = "panic"
         /\ cursor_position' = s.cursor
         /\ offset' = s.offset
         /\ status_message' = "Search"
         /\ UNCHANGED quit_times
    ELSE Searched(s, DocHighlight(s.rows, file_type, <<>>, <<>>, overflow_checks))

\* Key::Ctrl('f'), keys being the keys typed into the prompt before the
\* Enter or Esc that ends it
KeyCtrlF(keys, overflow_checks) ==
    /\ Running
    /\ SearchDone(SearchKeys(SearchFrom, keys, file_type, overflow_checks),
                  overflow_checks)
    /\ UNCHANGED <<file_name, dirty, file_type, disk, should_quit>>

\* ---------------------------------------------------------------------------
\* SpecQuit: the editor, started on no file, reading keys until it quits
\* ---------------------------------------------------------------------------

MaxQuitRows == 2
MaxQuitChars == 1
MaxPromptKeys == 1
QuitAlphabet == {"a"}
PromptKeys == Strs(QuitAlphabet \cup {"Right", "Left", "Backspace"}, MaxPromptKeys)

QuitBound == Len(rows') <= MaxQuitRows /\ DocScalars(rows') <= MaxQuitChars

\* the key read, Ctrl-Q ("ctrl_q") or another one ("key"), and for Ctrl-Q
\* how many Ctrl-Q have been read in a row, this one included (op.x)
Key(kind) ==
    /\ op' = Op(kind, 0, IF kind # "ctrl_q" THEN 0
                         ELSE IF op.kind = "ctrl_q" THEN op.x + 1 ELSE 1, "")
    /\ UNCHANGED <<pre, saved, rowVars, callVars>>

QuitCtrlQ == KeyCtrlQ /\ Key("ctrl_q")

\* a save under the name f, or with the prompt left empty; a failing write
\* fails at the first byte
QuitCtrlS ==
    \E new_name \in {<<>>, <<(<<"f">>)>>}, outcome \in {"ok", "create_err", "write_err"} :
        KeyCtrlS(new_name, outcome, 0) /\ Key("key")

QuitCtrlF ==
    \E keys \in PromptKeys, overflow_checks \in BOOLEAN :
        KeyCtrlF(keys, overflow_checks) /\ Key("key")

QuitChar ==
    \E c \in QuitAlphabet \cup {"\n"} : KeyChar(c) /\ QuitBound /\ Key("key")

QuitDelete == KeyDelete /\ Key("key")

QuitBackspace == KeyBackspace /\ Key("key")

QuitMove == \E key \in MoveKeys : KeyMove(key) /\ Key("key")

QuitOther == KeyOther /\ Key("key")

NextQuit ==
    \/ QuitCtrlQ
    \/ QuitCtrlS
    \/ QuitCtrlF
    \/ QuitChar
    \/ QuitDelete
    \/ QuitBackspace
    \/ QuitMove
    \/ QuitOther

SpecQuit == Init /\ [][NextQuit]_vars

\* C30: with unsaved changes should_quit is set by the fourth Ctrl-Q in a
\* row and by none before it, each of the first three leaving a warning and
\* the counter one lower; any other key puts the counter back to 3; with no
\* unsaved changes one Ctrl-Q sets should_quit
C30_QuitsOnFourthCtrlQ ==
    /\ (op.kind = "ctrl_q" /\ dirty /\ op.x < 4) =>
           ~should_quit /\ status_message = "WARNING" /\ quit_times = QUIT_TIMES - op.x
    /\ (op.kind = "ctrl_q" /\ dirty /\ op.x >= 4) => should_quit
    /\ (op.kind = "ctrl_q" /\ ~dirty) => should_quit
    /\ (op.kind = "key" /\ ~panicked) =>
           ~should_quit /\ quit_times = QUIT_TIMES

C30_Witness ==
    /\ op.kind = "ctrl_q"
    /\ op.x = 4
    /\ dirty
    /\ should_quit

\* ---------------------------------------------------------------------------
\* SpecKeys: the keys that move the cursor or edit the document, typed into
\* the editor started on no file; a character key leaves on record the
\* cursor (op.y, op.x), the character (op.c) and the rows (pre) it started
\* from, and a Backspace right after it keeps that record
\* ---------------------------------------------------------------------------

MaxKeysRows == 2
MaxKeysChars == 2
KeysAlphabet == {"a", "m"}

\* the bound on the rows, the characters and the cached length of every row
KeysBound ==
    /\ Len(rows') <= MaxKeysRows
    /\ DocScalars(rows') <= MaxKeysChars
    /\ \A i \in 1..Len(rows') : rows'[i].len <= MaxKeysChars

\* a key that leaves nothing on record
Plain ==
    /\ op' = [NoOp EXCEPT !.kind = "key"]
    /\ pre' = NoPre
    /\ UNCHANGED <<saved, rowVars, callVars>>

KeysChar ==
    \E c \in KeysAlphabet \cup {"\n"} :
        /\ KeyChar(c) /\ KeysBound
        /\ Hist("char", cursor_position.y, cursor_position.x, c)
        /\ UNCHANGED <<saved, rowVars, callVars>>

KeysBackspace ==
    /\ KeyBackspace /\ KeysBound
    /\ IF op.kind = "char"
       THEN /\ op' = Op("backspace", op.y, op.x, op.c)
            /\ UNCHANGED <<pre, saved, rowVars, callVars>>
       ELSE Plain

KeysDelete == KeyDelete /\ KeysBound /\ Plain

KeysMove == \E key \in MoveKeys : KeyMove(key) /\ Plain

KeysCtrlF ==
    \E keys \in PromptKeys, overflow_checks \in BOOLEAN :
        KeyCtrlF(keys, overflow_checks) /\ Plain

NextKeys ==
    \/ KeysChar
    \/ KeysBackspace
    \/ KeysDelete
    \/ KeysMove
    \/ KeysCtrlF

SpecKeys == Init /\ [][NextKeys]_vars

\* C31: after every key the cursor is on a row of the document (row 0 when
\* there is none) and no further right than the end of that row
C31_CursorStaysInRange ==
    ~panicked =>
        /\ cursor_position.y <= Max(Len(rows) - 1, 0)
        /\ cursor_position.x <= RowLen(rows, cursor_position.y)

\* the cursor at the end of the last row: both bounds are met with equality
C31_Witness ==
    /\ ~panicked
    /\ op.kind = "key"
    /\ Len(rows) = 2
    /\ rows[2].len = 2
    /\ cursor_position = [x |-> 2, y |-> 1]

\* C32: on a document with rows and the cursor in range, a character key
\* (an ordinary character or Enter) followed by Backspace leaves the text of
\* every row, the number of rows and the cursor as they were before the two
C32_CharThenBackspaceRestores ==
    (/\ op.kind = "backspace"
     /\ op.prev = "char"
     /\ op.c \in {"a", "\n"}
     /\ pre.rows # <<>>
     /\ ~panicked) =>
        /\ Texts(rows) = Texts(pre.rows)
        /\ cursor_position = [x |-> op.x, y |-> op.y]

\* C33: once a save has written the file, opening what it wrote gives the
\* same number of rows with the same texts in the same order, so that a
\* document of one empty row does not come back as the document of no row
C33_SaveOpenRoundTrip ==
    SaveWrote => Texts(OpenRows(disk)) = Texts(rows)

====
